---- MODULE Spec2Model ----
(***************************************************************************)
(* Model of the daily job-search agent (main.py, src/search.py,            *)
(* src/ranker.py, src/email_sender.py, src/config.py).                     *)
(*                                                                         *)
(* Strings are sequences of one-character strings so that lower-casing,    *)
(* substring search and concatenation are computed, not assumed.  A date  *)
(* is the triple <<year, month, day>> that isoformat()[:10] prints,        *)
(* compared the way Python compares the printed strings.                   *)
(***************************************************************************)
EXTENDS Integers, Sequences, FiniteSets, TLC

VARIABLES seenFile, clock, config, run, outbox, previewFile

vars == <<seenFile, clock, config, run, outbox, previewFile>>

(***************************************************************************)
(* Strings                                                                 *)
(***************************************************************************)
UpperLetters ==
  <<"A","B","C","D","E","F","G","H","I","J","K","L","M",
    "N","O","P","Q","R","S","T","U","V","W","X","Y","Z">>

LowerLetters ==
  <<"a","b","c","d","e","f","g","h","i","j","k","l","m",
    "n","o","p","q","r","s","t","u","v","w","x","y","z">>

LowerChar(c) ==
  IF \E n \in 1..26 : UpperLetters[n] = c
  THEN LowerLetters[CHOOSE n \in 1..26 : UpperLetters[n] = c]
  ELSE c

\* str.lower()
Lower(s) == [n \in 1..Len(s) |-> LowerChar(s[n])]

\* the Python test `sub in s` on strings
Contains(sub, s) ==
  \E k \in 0..(Len(s) - Len(sub)) : SubSeq(s, k + 1, k + Len(sub)) = sub

StartsWith(s, prefix) ==
  Len(prefix) <= Len(s) /\ SubSeq(s, 1, Len(prefix)) = prefix

(***************************************************************************)
(* config.py                                                               *)
(***************************************************************************)
EXCLUDE_COMPANIES == << <<"D","e","l","o","i","t","t","e">> >>

(***************************************************************************)
(* search.py: helpers                                                      *)
(***************************************************************************)
\* a JSON null in a payload, which the normalizers hand on as None (.get
\* gives its default for an absent key only)
None == <<"None">>

\* the text an f-string makes of a value
Str(v) == IF v = None THEN <<"N","o","n","e">> ELSE v

MutJobIdKeepsCase(job) ==
  Str(job.title) \o <<"-">> \o Str(job.company) \o <<"-">> \o Str(job.location)

\* _job_id: sha256(raw)[:16] is modelled as the hashed string itself, that
\* is as a collision-free hash of raw.
_job_id(job) ==
  Lower(Str(job.title) \o <<"-">> \o Str(job.company) \o <<"-">> \o Str(job.location))

MutExcludedCaseSensitive(company) ==
  \E n \in 1..Len(EXCLUDE_COMPANIES) : Contains(EXCLUDE_COMPANIES[n], company)

_is_excluded(company) ==
  \E n \in 1..Len(EXCLUDE_COMPANIES) :
    Contains(Lower(EXCLUDE_COMPANIES[n]), Lower(company))

\* urllib.parse.quote_plus: letters, digits and _.-~ are kept, a space
\* becomes +, every other character becomes its %XX escape.
PercentEscapes == [c \in {"&", ",", "+", "/"} |->
  CASE c = "&" -> "%26" [] c = "," -> "%2C" [] c = "+" -> "%2B" [] c = "/" -> "%2F"]

QuoteChar(c) ==
  IF c = " " THEN "+"
  ELSE IF c \in DOMAIN PercentEscapes THEN PercentEscapes[c]
  ELSE c

quote_plus(s) == [n \in 1..Len(s) |-> QuoteChar(s[n])]

GoogleSearchPrefix == <<"https://www.google.com/search?q=">>

MutSearchUrlEmpty(title, company) == <<>>

_google_search_url(title, company) ==
  GoogleSearchPrefix \o
  quote_plus(title \o <<" ">> \o company \o <<" ","j","o","b"," ","a","p","p","l","y">>)

(***************************************************************************)
(* Dates.  clock counts days; day 0 is 2025-12-01.                         *)
(***************************************************************************)
PruneDays == 30

\* datetime.isoformat()[:10]
IsoDate(n) ==
  IF n < 31 THEN <<2025, 12, n + 1>>
  ELSE IF n < 62 THEN <<2026, 1, n - 30>>
  ELSE IF n < 90 THEN <<2026, 2, n - 61>>
  ELSE <<2026, 3, n - 89>>

\* a >= b on two "YYYY-MM-DD" strings
MutDateGreater(a, b) ==
  \/ a[1] > b[1]
  \/ a[1] = b[1] /\ a[2] > b[2]
  \/ a[1] = b[1] /\ a[2] = b[2] /\ a[3] > b[3]

DateGE(a, b) ==
  \/ a[1] > b[1]
  \/ a[1] = b[1] /\ a[2] > b[2]
  \/ a[1] = b[1] /\ a[2] = b[2] /\ a[3] >= b[3]


StartDay == PruneDays + 1

MaxDay == StartDay + PruneDays + 2

\* the day a printed date stands for
DayNum(date) == CHOOSE n \in 0..(MaxDay + 1) : IsoDate(n) = date

(***************************************************************************)
(* Job records.  A job is a Python dict: keys holds the optional keys that *)
(* are present (id, url_is_search, scores); the value of an absent key is  *)
(* a placeholder that is never read.                                       *)
(***************************************************************************)
NoScores == [has_overall |-> FALSE, overall |-> 0, one_liner |-> "", id |-> <<>>]

RawJob(title, company, location, url) ==
  [title |-> title, company |-> company, location |-> location, url |-> url,
   source |-> "", keys |-> {}, missing |-> {}, id |-> <<>>, url_is_search |-> FALSE,
   scores |-> NoScores]

DirectUrl == <<"https://example.com/job/1">>

\* what the search backends can return: the same posting in two spellings
\* (with and without a link), the same role in another city, and a posting
\* of an excluded firm
RawPool ==
  << RawJob(<<"V","P">>, <<"B","a","i","n">>, <<"R","e","m","o","t","e">>, <<>>),
     RawJob(<<"v","p">>, <<"B","A","I","N">>, <<"r","e","m","o","t","e">>, DirectUrl),
     RawJob(<<"V","P">>, <<"B","a","i","n">>, <<"I","L">>, <<>>),
     RawJob(<<"M","D">>, <<"D","E","L","O","I","T","T","E"," ","&"," ","C","o">>,
            <<"I","L">>, DirectUrl) >>

MaxRaw == 2

RECURSIVE SeqsUpTo(_, _)
SeqsUpTo(S, n) ==
  IF n = 0 THEN {<<>>}
  ELSE LET shorter == SeqsUpTo(S, n - 1)
       IN shorter \cup {Append(s, x) : s \in {t \in shorter : Len(t) = n - 1}, x \in S}

RawInputs == SeqsUpTo({RawPool[n] : n \in 1..Len(RawPool)}, MaxRaw)

(***************************************************************************)
(* The seen-store file data/seen_jobs.json: a dict fingerprint -> date.    *)
(* json.dumps / json.loads of a str -> str dict give the dict back.        *)
(***************************************************************************)
EmptyDict == [k \in {} |-> <<>>]

Put(d, key, value) ==
  [k \in DOMAIN d \cup {key} |-> IF k = key THEN value ELSE d[k]]

Restrict(d, keep) == [k \in keep |-> d[k]]

Mut_load_seenIgnoresFile(file) == EmptyDict

\* _load_seen
_load_seen(file) == IF file.exists THEN file.data ELSE EmptyDict

Mut_save_seenTruncates(seen) == [exists |-> TRUE, valid |-> TRUE, data |-> EmptyDict]

\* _save_seen
_save_seen(seen) == [exists |-> TRUE, valid |-> TRUE, data |-> seen]

\* _load_seen, line 20: json.loads raises on a file that holds no JSON
LoadRaises(file) == file.exists /\ ~file.valid

\* a stored file whose text is not JSON
CorruptStore == [exists |-> TRUE, valid |-> FALSE, data |-> EmptyDict]

\* a fingerprint left in the store by an earlier run, of a posting that the
\* backends no longer return
OldKey == <<"c","i","o","-","i","b","m","-","i","l">>

InitKeys == {_job_id(RawPool[1]), OldKey}

InitAges == {PruneDays, PruneDays + 1}

InitStores ==
  { [exists |-> DOMAIN d # {}, valid |-> TRUE, data |-> d] :
      d \in UNION { [ks -> {IsoDate(StartDay - a) : a \in InitAges}] : ks \in SUBSET InitKeys } }


(***************************************************************************)
(* search.py: the backends.  Each returns the list its normalizer built    *)
(* from whatever the service answered, tagged with its source.             *)
(***************************************************************************)
Tagged(jobs, source) == [n \in 1..Len(jobs) |-> [jobs[n] EXCEPT !.source = source]]

\* search_serpapi
search_serpapi(cfg) ==
  IF ~cfg.SERPAPI_KEY THEN {<<>>}
  ELSE {Tagged(r, "serpapi") : r \in RawInputs}

\* search_jsearch
search_jsearch(cfg) ==
  IF ~cfg.RAPIDAPI_KEY THEN {<<>>}
  ELSE {Tagged(r, "jsearch") : r \in RawInputs}

\* career_pages.search_career_pages
search_career_pages(cfg) ==
  IF ~cfg.SERPAPI_KEY THEN {<<>>}
  ELSE IF ~cfg.SCAN_CAREER_PAGES THEN {<<>>}
  ELSE {Tagged(r, "career_page") : r \in RawInputs}

\* fetch_jobs, lines 252-263: the concatenation of what the backends gave
GatherResults(cfg) ==
  { s \o j \o c :
      s \in IF cfg.SERPAPI_KEY THEN search_serpapi(cfg) ELSE {<<>>},
      j \in IF cfg.RAPIDAPI_KEY THEN search_jsearch(cfg) ELSE {<<>>},
      c \in search_career_pages(cfg) }

(***************************************************************************)
(* search.py: fetch_jobs, the body of the dedup loop (lines 277-292)       *)
(***************************************************************************)
MutDedupNoRecord(seen, unique_jobs, job, today) ==
  LET jid == _job_id(job)
      kept == [job EXCEPT !.id = jid, !.keys = @ \cup {"id", "url_is_search"},
                          !.url = IF job.url = <<>>
                                  THEN _google_search_url(job.title, job.company)
                                  ELSE @,
                          !.url_is_search = (job.url = <<>>)]
  IN IF jid \in DOMAIN seen \/ _is_excluded(job.company)
     THEN [seen |-> seen, unique_jobs |-> unique_jobs, job |-> job]
     ELSE [seen |-> seen, unique_jobs |-> Append(unique_jobs, kept), job |-> kept]

MutDedupNoSeenCheck(seen, unique_jobs, job, today) ==
  LET jid == _job_id(job)
      kept == [job EXCEPT !.id = jid, !.keys = @ \cup {"id", "url_is_search"},
                          !.url = IF job.url = <<>>
                                  THEN _google_search_url(job.title, job.company)
                                  ELSE @,
                          !.url_is_search = (job.url = <<>>)]
  IN IF _is_excluded(job.company)
     THEN [seen |-> seen, unique_jobs |-> unique_jobs, job |-> job]
     ELSE [seen |-> Put(seen, jid, today),
           unique_jobs |-> Append(unique_jobs, kept), job |-> kept]

MutDedupRefreshesDate(seen, unique_jobs, job, today) ==
  LET jid == _job_id(job)
      kept == [job EXCEPT !.id = jid, !.keys = @ \cup {"id", "url_is_search"},
                          !.url = IF job.url = <<>>
                                  THEN _google_search_url(job.title, job.company)
                                  ELSE @,
                          !.url_is_search = (job.url = <<>>)]
  IN IF jid \in DOMAIN seen
     THEN [seen |-> Put(seen, jid, today), unique_jobs |-> unique_jobs, job |-> job]
     ELSE IF _is_excluded(job.company)
     THEN [seen |-> seen, unique_jobs |-> unique_jobs, job |-> job]
     ELSE [seen |-> Put(seen, jid, today),
           unique_jobs |-> Append(unique_jobs, kept), job |-> kept]

MutDedupKeepsSeenJobs(seen, unique_jobs, job, today) ==
  LET jid == _job_id(job)
      kept == [job EXCEPT !.id = jid, !.keys = @ \cup {"id", "url_is_search"},
                          !.url = IF job.url = <<>>
                                  THEN _google_search_url(job.title, job.company)
                                  ELSE @,
                          !.url_is_search = (job.url = <<>>)]
  IN IF _is_excluded(job.company)
     THEN [seen |-> seen, unique_jobs |-> unique_jobs, job |-> job]
     ELSE [seen |-> Put(seen, jid, today),
           unique_jobs |-> Append(unique_jobs, kept), job |-> kept]

MutDedupRecordsNothing(seen, unique_jobs, job, today) ==
  LET jid == _job_id(job)
      kept == [job EXCEPT !.id = jid, !.keys = @ \cup {"id", "url_is_search"},
                          !.url = IF job.url = <<>>
                                  THEN _google_search_url(job.title, job.company)
                                  ELSE @,
                          !.url_is_search = (job.url = <<>>)]
  IN IF jid \in DOMAIN seen
     THEN [seen |-> seen, unique_jobs |-> unique_jobs, job |-> job]
     ELSE IF _is_excluded(job.company)
     THEN [seen |-> seen, unique_jobs |-> unique_jobs, job |-> job]
     ELSE [seen |-> seen,
           unique_jobs |-> Append(unique_jobs, kept), job |-> kept]

DedupBody(seen, unique_jobs, job, today) ==
  LET jid == _job_id(job)
      \* lines 283-290: job["id"], job["url"], job["url_is_search"]
      kept == [job EXCEPT !.id = jid, !.keys = @ \cup {"id", "url_is_search"},
                          !.url = IF job.url = <<>>
                                  THEN _google_search_url(job.title, job.company)
                                  ELSE @,
                          !.url_is_search = (job.url = <<>>)]
  IN IF jid \in DOMAIN seen
     THEN [seen |-> seen, unique_jobs |-> unique_jobs, job |-> job]
     ELSE IF _is_excluded(job.company)
     THEN [seen |-> seen, unique_jobs |-> unique_jobs, job |-> job]
     ELSE [seen |-> Put(seen, jid, today),
           unique_jobs |-> Append(unique_jobs, kept), job |-> kept]

\* line 280: _is_excluded calls company.lower() (line 37), which None lacks;
\* the call is reached for a job whose fingerprint is not in the store
ExcludedRaises(company) == company = None

DedupRaises(seen, job) ==
  _job_id(job) \notin DOMAIN seen /\ ExcludedRaises(job.company)

MutPrunedWindowOfNoDays(seen, now) ==
  LET cutoff == IsoDate(now)
  IN Restrict(seen, {k \in DOMAIN seen : DateGE(seen[k], cutoff)})

\* lines 297-298: the entries the prune keeps
Pruned(seen, now) ==
  LET cutoff == IsoDate(now - PruneDays)
  IN Restrict(seen, {k \in DOMAIN seen : DateGE(seen[k], cutoff)})


(***************************************************************************)
(* Processes.  run[p] holds the local variables of invocation p, by their  *)
(* names in the source, its position pc and the entry point it was started *)
(* at.  The fields rawIn, loaded, ingested, pruneDay and pruned are        *)
(* history: what was fetched, what was loaded, what the first save wrote,  *)
(* when and what the prune removed.  again is set when the backends answer *)
(* this run exactly as they answered the previous one, and then holds what *)
(* that run fetched, its date and what it pruned.  rankIn is the list      *)
(* rank_jobs was called with, requests the requests made to the scoring    *)
(* service (kind, positions sent, handler).  called is the set             *)
(* of search backends that were sent a request, reads and writes count the *)
(* calls of _load_seen and _save_seen, html is what build_email_html       *)
(* returned when it is the entry point.  q and remote are the position of  *)
(* a backend in its loop (the query or firm, and which of the two requests *)
(* of a query), log the requests sent by the backends, in order, each with *)
(* what came of it and the jobs it added to the backend's list.            *)
(* loadedAfter is the set of the invocations that had saved the store when *)
(* this one loaded it, reported the fingerprints that the runs before     *)
(* this one output, each with the day number of the date it was recorded   *)
(* under.                                                                  *)
(***************************************************************************)
NotAgain == [same |-> FALSE, rawIn |-> <<>>, today |-> <<0, 0, 0>>, pruned |-> {}]

\* what is known of the call of send_email of a run: the list it was called
\* with, what the email service did if it was asked, what the call returned
NotDelivered ==
  [invoked |-> FALSE, service |-> "", returned |-> FALSE, raised |-> FALSE,
   jobs |-> <<>>]

NoArgs == [dry_run |-> FALSE, preview |-> FALSE]

Locals(entry, args, runNo, again) ==
  [entry |-> entry, pc |-> entry, args |-> args, runNo |-> runNo,
   raw_jobs |-> <<>>, rawIn |-> <<>>, i |-> 0,
   seen |-> EmptyDict, loaded |-> EmptyDict, ingested |-> EmptyDict,
   unique_jobs |-> <<>>, today |-> <<0, 0, 0>>, pruneDay |-> 0, pruned |-> {},
   filtered |-> FALSE, jobs |-> <<>>, again |-> again,
   rankIn |-> <<>>, scored_jobs |-> <<>>, batch_start |-> 0, k |-> 0,
   requests |-> <<>>, ranked |-> FALSE,
   delivery |-> NotDelivered,
   called |-> {}, reads |-> 0, writes |-> 0,
   html |-> <<>>,
   q |-> 0, remote |-> FALSE, log |-> <<>>,
   loadedAfter |-> {}, reported |-> {}]

MaxRuns == 2

MaxFetch == 2

\* how many postings the backends return at most, in a run of the given entry
RawBound(r) == IF r.entry = "main" THEN MaxFetch ELSE MaxRaw

ReturnFromFetch(r) == IF r.entry = "main" THEN "main_fetched" ELSE "exit"

ReturnFromRank(r) == IF r.entry = "main" THEN "main_output" ELSE "exit"

\* the backends that send requests: search_serpapi line 68, search_jsearch
\* line 168, search_career_pages lines 41-45
BackendsCalled(cfg) ==
  {b \in {"serpapi"} : cfg.SERPAPI_KEY} \cup
  {b \in {"jsearch"} : cfg.RAPIDAPI_KEY} \cup
  {b \in {"career_page"} : cfg.SERPAPI_KEY /\ cfg.SCAN_CAREER_PAGES}

\* fetch_jobs, lines 252-269
Gather(p) ==
  /\ run[p].pc = "fetch_jobs"
  /\ \E raw \in GatherResults(config) :
       /\ Len(raw) <= RawBound(run[p])
       /\ run[p].again.same => raw = run[p].again.rawIn
       /\ run' = [run EXCEPT ![p] =
            [@ EXCEPT !.raw_jobs = raw, !.rawIn = raw,
                      !.called = BackendsCalled(config),
                      !.pc = IF raw = <<>> THEN ReturnFromFetch(run[p]) ELSE "load_seen"]]
  /\ UNCHANGED <<seenFile, clock, config, outbox, previewFile>>

\* fetch_jobs, lines 272-274
LoadSeen(p) ==
  /\ run[p].pc = "load_seen"
  /\ run' = [run EXCEPT ![p] =
       IF LoadRaises(seenFile)
       THEN [@ EXCEPT !.reads = @ + 1, !.pc = "crashed"]
       ELSE [@ EXCEPT !.seen = _load_seen(seenFile), !.loaded = _load_seen(seenFile),
                      !.unique_jobs = <<>>, !.today = IsoDate(clock),
                      !.reads = @ + 1,
                      !.loadedAfter = {q \in DOMAIN run : run[q].writes > 0},
                      !.i = 1, !.pc = "dedup"]]
  /\ UNCHANGED <<seenFile, clock, config, outbox, previewFile>>

\* fetch_jobs, lines 276-292: one iteration of the loop
DedupStep(p) ==
  /\ run[p].pc = "dedup"
  /\ run[p].i <= Len(run[p].raw_jobs)
  /\ LET r == DedupBody(run[p].seen, run[p].unique_jobs,
                        run[p].raw_jobs[run[p].i], run[p].today)
     IN run' = [run EXCEPT ![p] =
          IF DedupRaises(run[p].seen, run[p].raw_jobs[run[p].i])
          THEN [@ EXCEPT !.pc = "crashed"]
          ELSE [@ EXCEPT !.seen = r.seen, !.unique_jobs = r.unique_jobs,
                         !.raw_jobs = [@ EXCEPT ![run[p].i] = r.job],
                         !.i = @ + 1]]
  /\ UNCHANGED <<seenFile, clock, config, outbox, previewFile>>

\* fetch_jobs, line 294
SaveSeen(p) ==
  /\ run[p].pc = "dedup"
  /\ run[p].i > Len(run[p].raw_jobs)
  /\ seenFile' = _save_seen(run[p].seen)
  /\ run' = [run EXCEPT ![p] = [@ EXCEPT !.ingested = run[p].seen, !.writes = @ + 1,
                                          !.pc = "prune"]]
  /\ UNCHANGED <<clock, config, outbox, previewFile>>

MutPruneSeenKeepsAll(p) ==
  /\ run[p].pc = "prune"
  /\ run' = [run EXCEPT ![p] =
       [@ EXCEPT !.pruneDay = clock,
                 !.filtered = TRUE,
                 !.jobs = run[p].unique_jobs,
                 !.pc = ReturnFromFetch(run[p])]]
  /\ UNCHANGED <<seenFile, clock, config, outbox, previewFile>>

\* fetch_jobs, lines 296-302
PruneSeen(p) ==
  /\ run[p].pc = "prune"
  /\ LET kept == Pruned(run[p].seen, clock)
     IN /\ seenFile' = _save_seen(kept)
        /\ run' = [run EXCEPT ![p] =
             [@ EXCEPT !.seen = kept, !.pruneDay = clock,
                       !.pruned = DOMAIN run[p].seen \ DOMAIN kept,
                       !.filtered = TRUE,
                       !.writes = @ + 1,
                       !.jobs = run[p].unique_jobs,
                       !.pc = ReturnFromFetch(run[p])]]
  /\ UNCHANGED <<clock, config, outbox, previewFile>>

(***************************************************************************)
(* The environment: the calendar and the scheduler that starts the script. *)
(* Midnight may pass once while a run is in progress; between runs up to   *)
(* PruneDays days may pass at once.                                        *)
(***************************************************************************)
Running(p) == run[p].pc # "exit" /\ run[p].pc # run[p].entry

\* midnight passes between the dedup loop and the prune (a midnight before
\* the load is a longer gap between runs, and one after line 274 has its
\* only effect on the cutoff of line 297)
Midnight ==
  /\ clock + 1 <= MaxDay
  /\ \E p \in DOMAIN run : run[p].pc = "prune"
  /\ \A p \in DOMAIN run :
       run[p].pc \in {"dedup", "prune"} => run[p].today = IsoDate(clock)
  /\ clock' = clock + 1
  /\ UNCHANGED <<seenFile, config, run, outbox, previewFile>>

\* what a run adds to the fingerprints reported: lines 283 and 292
Reports(r) ==
  {<<r.unique_jobs[n].id, DayNum(r.today)>> : n \in 1..Len(r.unique_jobs)}

\* the entries of a store are the fingerprints the runs before the first one
\* of the model output, under the dates of those runs: line 283
ReportedIn(file) ==
  {<<k, DayNum(file.data[k])>> : k \in DOMAIN file.data}

\* the days that pass between the end of a run and the start of the next
RunGaps == {0, 1, PruneDays}

NewRun(p) ==
  /\ run[p].pc = "exit"
  /\ run[p].runNo < MaxRuns
  /\ \A q \in DOMAIN run : ~Running(q)
  /\ \E d \in RunGaps :
       /\ clock + d <= MaxDay
       /\ clock' = clock + d
  /\ \E same \in {FALSE, run[p].filtered} :
       run' = [run EXCEPT ![p] =
         Locals(run[p].entry, run[p].args, run[p].runNo + 1,
                IF same
                THEN [same |-> TRUE, rawIn |-> run[p].rawIn, today |-> run[p].today,
                      pruned |-> run[p].pruned]
                ELSE NotAgain)]
  /\ UNCHANGED <<seenFile, config, outbox, previewFile>>

(***************************************************************************)
(* The filter stage alone: fetch_jobs called again and again               *)
(***************************************************************************)
SerpOnly == [SERPAPI_KEY |-> TRUE, RAPIDAPI_KEY |-> FALSE, ANTHROPIC_API_KEY |-> FALSE,
             RESEND_API_KEY |-> FALSE, SCAN_CAREER_PAGES |-> FALSE]

InitFilter ==
  /\ seenFile \in InitStores
  /\ clock = StartDay
  /\ config = SerpOnly
  /\ run = [p \in {1} |-> Locals("fetch_jobs", NoArgs, 1, NotAgain)]
  /\ outbox = <<>>
  /\ previewFile = <<>>

NextFilter ==
  \/ \E p \in DOMAIN run : Gather(p)
  \/ \E p \in DOMAIN run : LoadSeen(p)
  \/ \E p \in DOMAIN run : DedupStep(p)
  \/ \E p \in DOMAIN run : SaveSeen(p)
  \/ \E p \in DOMAIN run : PruneSeen(p)
  \/ \E p \in DOMAIN run : NewRun(p)
  \/ Midnight

SpecFilter == InitFilter /\ [][NextFilter]_vars


(***************************************************************************)
(* A longer sequence of runs of the filter stage, one after the other,     *)
(* with the fingerprints that each run output kept as history.  The        *)
(* backends answer a run with a prefix of one list, in which the first two *)
(* postings have the same fingerprint, or with nothing.                    *)
(***************************************************************************)
MaxReruns == 3

MaxRerunJobs == 2

RerunPool == Tagged(<<RawPool[1], RawPool[2], RawPool[3]>>, "serpapi")

RerunInputs == {SubSeq(RerunPool, 1, n) : n \in 0..MaxRerunJobs}

\* fetch_jobs, lines 252-269: the run up to the load of the store
Started(runNo, raw, reported) ==
  [Locals("fetch_jobs", NoArgs, runNo, NotAgain)
     EXCEPT !.raw_jobs = raw, !.rawIn = raw,
            !.called = BackendsCalled(SerpOnly),
            !.reported = reported,
            !.pc = IF raw = <<>> THEN "exit" ELSE "load_seen"]

Rerun(p) ==
  /\ run[p].pc = "exit"
  /\ run[p].runNo < MaxReruns
  /\ \E d \in RunGaps :
       /\ clock + d <= MaxDay
       /\ clock' = clock + d
  /\ \E raw \in RerunInputs :
       run' = [run EXCEPT ![p] =
         Started(run[p].runNo + 1, raw, run[p].reported \cup Reports(run[p]))]
  /\ UNCHANGED <<seenFile, config, outbox, previewFile>>

InitRuns ==
  /\ seenFile \in InitStores
  /\ clock = StartDay
  /\ config = SerpOnly
  /\ run \in { [p \in {1} |-> Started(1, raw, ReportedIn(seenFile))] : raw \in RerunInputs }
  /\ outbox = <<>>
  /\ previewFile = <<>>

NextRuns ==
  \/ \E p \in DOMAIN run : LoadSeen(p)
  \/ \E p \in DOMAIN run : DedupStep(p)
  \/ \E p \in DOMAIN run : SaveSeen(p)
  \/ \E p \in DOMAIN run : PruneSeen(p)
  \/ \E p \in DOMAIN run : Rerun(p)
  \/ Midnight

SpecRuns == InitRuns /\ [][NextRuns]_vars

(***************************************************************************)
(* Two invocations of fetch_jobs at once, as when the script is started    *)
(* while it is running.  Each has its raw list and takes the steps of      *)
(* lines 272-299 one at a time: the load, one iteration of the loop, the   *)
(* first save, the prune with the second save.  Path.write_text truncates  *)
(* the file and then writes it, so that a load that falls into a save of   *)
(* the other invocation reads a text that is no JSON.                      *)
(***************************************************************************)
MaxRaceJobs == 2

\* the postings the two invocations fetch: prefixes of one list
RacePool == Tagged(<<RawPool[1], RawPool[3], RawPool[2]>>, "serpapi")

RaceInputs == {SubSeq(RacePool, 1, n) : n \in 1..MaxRaceJobs}

\* the invocation is about to write the store (line 294 or line 299)
AtSave(p) ==
  \/ run[p].pc = "dedup" /\ run[p].i > Len(run[p].raw_jobs)
  \/ run[p].pc = "prune"

\* _load_seen, lines 19-20, while another invocation is inside write_text
LoadDuringSave(p) ==
  /\ run[p].pc = "load_seen"
  /\ \E q \in DOMAIN run \ {p} : AtSave(q)
  /\ run' = [run EXCEPT ![p] = [@ EXCEPT !.reads = @ + 1, !.pc = "crashed"]]
  /\ UNCHANGED <<seenFile, clock, config, outbox, previewFile>>

InitRace ==
  /\ seenFile \in {f \in InitStores :
                     \A k \in DOMAIN f.data : k = OldKey /\ f.data[k] = IsoDate(StartDay - PruneDays - 1)}
  /\ clock = StartDay
  /\ config = SerpOnly
  /\ run \in { [p \in {1, 2} |->
                  [Locals("fetch_jobs", NoArgs, 1, NotAgain)
                     EXCEPT !.raw_jobs = raws[p], !.rawIn = raws[p],
                            !.called = BackendsCalled(SerpOnly), !.pc = "load_seen"]]
                 : raws \in [{1, 2} -> RaceInputs] }
  /\ outbox = <<>>
  /\ previewFile = <<>>

NextRace ==
  \/ \E p \in DOMAIN run : LoadSeen(p)
  \/ \E p \in DOMAIN run : LoadDuringSave(p)
  \/ \E p \in DOMAIN run : DedupStep(p)
  \/ \E p \in DOMAIN run : SaveSeen(p)
  \/ \E p \in DOMAIN run : PruneSeen(p)

SpecRace == InitRace /\ [][NextRace]_vars


(***************************************************************************)
(* The filter stage with the backends' requests taken one at a time.  A    *)
(* request ends in one of: ok (a payload of one posting), timeout (httpx   *)
(* raises), status (raise_for_status raises), not_json (resp.json()        *)
(* raises), partial (a payload whose first entry is a posting and whose    *)
(* second is not an object, so that the normalizer raises on it), and      *)
(* null_company (a payload of one posting whose company name is null).     *)
(***************************************************************************)
\* _build_search_queries, lines 50-54: one query per title group
NumQueries == 3

QueryTitles == << <<"P","a","r","t","n","e","r">>, <<"V","P">>, <<"C","I","O">> >>

\* config.py, line 35
INCLUDE_REMOTE == TRUE

\* career_pages.FIRM_CAREER_SEARCHES, in the order of the dict
Firms ==
  << <<"P","w","C">>, <<"K","P","M","G">>, <<"E","Y">>, <<"B","C","G">>,
     <<"M","c","K","i","n","s","e","y">>, <<"B","a","i","n">>,
     <<"A","c","c","e","n","t","u","r","e">>,
     <<"O","l","i","v","e","r"," ","W","y","m","a","n">>,
     <<"S","l","a","l","o","m">>, <<"I","B","M">> >>

\* how many of the firms are scanned
MaxFirms == 2

\* how many requests of a run end otherwise than ok
MaxFaults == 1

Stages == <<"search_serpapi", "search_jsearch", "search_career_pages">>

MutConfiguredScanAlone(cfg, stage) ==
  CASE stage = "search_serpapi" -> cfg.SERPAPI_KEY
    [] stage = "search_jsearch" -> cfg.RAPIDAPI_KEY
    [] stage = "search_career_pages" -> cfg.SCAN_CAREER_PAGES

\* search.py lines 68 and 257, lines 168 and 259, career_pages.py lines 41-45
Configured(cfg, stage) ==
  CASE stage = "search_serpapi" -> cfg.SERPAPI_KEY
    [] stage = "search_jsearch" -> cfg.RAPIDAPI_KEY
    [] stage = "search_career_pages" -> cfg.SERPAPI_KEY /\ cfg.SCAN_CAREER_PAGES

\* fetch_jobs, lines 257-263: the first backend from the n-th on that sends
\* requests
RECURSIVE StageFrom(_, _)
StageFrom(cfg, n) ==
  IF n > Len(Stages) THEN "gathered"
  ELSE IF Configured(cfg, Stages[n]) THEN Stages[n]
  ELSE StageFrom(cfg, n + 1)

StageNo(stage) == CHOOSE n \in 1..Len(Stages) : Stages[n] = stage

SourceOf(stage) ==
  CASE stage = "search_serpapi" -> "serpapi"
    [] stage = "search_jsearch" -> "jsearch"
    [] stage = "search_career_pages" -> "career_page"

\* the length of a backend's loop
Rounds(stage) == IF stage = "search_career_pages" THEN MaxFirms ELSE NumQueries

\* the posting a request finds, as its normalizer builds it
\* (_normalize_serpapi, _normalize_jsearch, career_pages.py lines 75-90)
PostedJob(stage, q, remote) ==
  [ IF stage = "search_career_pages"
    THEN RawJob(<<"V","P">>, Firms[q],
                <<"S","e","e"," ","p","o","s","t","i","n","g">>, DirectUrl)
    ELSE RawJob(QueryTitles[q],
                IF stage = "search_serpapi" THEN <<"B","a","i","n">> ELSE <<"B","C","G">>,
                IF remote THEN <<"R","e","m","o","t","e">> ELSE <<"I","L">>,
                DirectUrl)
    EXCEPT !.source = SourceOf(stage) ]

\* career_pages.py line 77 sets the company from the dict's key
Outcomes(stage) ==
  {"ok", "timeout", "status", "not_json", "partial"}
    \cup IF stage = "search_career_pages" THEN {} ELSE {"null_company"}

\* the request, or the handling of its payload, raised inside the try
Raised(outcome) == outcome \in {"timeout", "status", "not_json", "partial"}

\* what the backend appended to its list before the request was over
Added(stage, q, remote, outcome) ==
  CASE outcome \in {"ok", "partial"} -> <<PostedJob(stage, q, remote)>>
    [] outcome = "null_company" ->
         <<[PostedJob(stage, q, remote) EXCEPT !.company = None]>>
    [] OTHER -> <<>>

Faults(log) == Cardinality({n \in 1..Len(log) : log[n].outcome # "ok"})

\* fetch_jobs, line 252
FetchStart(p) ==
  /\ run[p].pc = "fetch_requests"
  /\ run' = [run EXCEPT ![p] =
       [@ EXCEPT !.q = 1, !.remote = FALSE, !.pc = StageFrom(config, 1)]]
  /\ UNCHANGED <<seenFile, clock, config, outbox, previewFile>>

\* one request of a backend's loop, with the except clause that ends the
\* iteration when the request raised: search_serpapi lines 75-102,
\* search_jsearch lines 179-211, search_career_pages lines 50-97
Request(p, stage) ==
  /\ run[p].pc = stage
  /\ \E outcome \in Outcomes(stage) :
       /\ outcome # "ok" => Faults(run[p].log) < MaxFaults
       /\ LET q == run[p].q
              remote == run[p].remote
              got == Added(stage, q, remote, outcome)
              second == /\ stage # "search_career_pages"
                        /\ INCLUDE_REMOTE
                        /\ ~remote
                        /\ ~Raised(outcome)
              over == ~second /\ q = Rounds(stage)
          IN run' = [run EXCEPT ![p] =
               [@ EXCEPT !.raw_jobs = @ \o got,
                         !.log = Append(@, [backend |-> SourceOf(stage), q |-> q,
                                            remote |-> remote, outcome |-> outcome,
                                            jobs |-> got]),
                         !.q = IF over THEN 1 ELSE IF second THEN q ELSE q + 1,
                         !.remote = second,
                         !.pc = IF over THEN StageFrom(config, StageNo(stage) + 1)
                                ELSE stage]]
  /\ UNCHANGED <<seenFile, clock, config, outbox, previewFile>>

SerpapiRequest(p) == Request(p, "search_serpapi")

JsearchRequest(p) == Request(p, "search_jsearch")

CareerPageRequest(p) == Request(p, "search_career_pages")

\* fetch_jobs, lines 265-269
Gathered(p) ==
  /\ run[p].pc = "gathered"
  /\ run' = [run EXCEPT ![p] =
       [@ EXCEPT !.rawIn = run[p].raw_jobs,
                 !.called = {run[p].log[n].backend : n \in 1..Len(run[p].log)},
                 !.pc = IF run[p].raw_jobs = <<>> THEN ReturnFromFetch(run[p])
                        ELSE "load_seen"]]
  /\ UNCHANGED <<seenFile, clock, config, outbox, previewFile>>

FetchConfigs ==
  { [SERPAPI_KEY |-> s, RAPIDAPI_KEY |-> r, ANTHROPIC_API_KEY |-> FALSE,
     RESEND_API_KEY |-> FALSE, SCAN_CAREER_PAGES |-> c] :
      s \in BOOLEAN, r \in BOOLEAN, c \in BOOLEAN }

InitFetch ==
  /\ seenFile \in {f \in InitStores : ~f.exists}
  /\ clock = StartDay
  /\ config \in FetchConfigs
  /\ run = [p \in {1} |-> Locals("fetch_requests", NoArgs, 1, NotAgain)]
  /\ outbox = <<>>
  /\ previewFile = <<>>

NextFetch ==
  \/ \E p \in DOMAIN run : FetchStart(p)
  \/ \E p \in DOMAIN run : SerpapiRequest(p)
  \/ \E p \in DOMAIN run : JsearchRequest(p)
  \/ \E p \in DOMAIN run : CareerPageRequest(p)
  \/ \E p \in DOMAIN run : Gathered(p)
  \/ \E p \in DOMAIN run : LoadSeen(p)
  \/ \E p \in DOMAIN run : DedupStep(p)
  \/ \E p \in DOMAIN run : SaveSeen(p)
  \/ \E p \in DOMAIN run : PruneSeen(p)

SpecFetch == InitFetch /\ [][NextFetch]_vars


(***************************************************************************)
(* ranker.py.  A reply of the scoring service is a text of lines; a line   *)
(* is a markdown fence or a body, and a body is what json.loads makes of   *)
(* it: not JSON, JSON that is no dict, or a dict with a "scores" list.     *)
(* A score record has an id, perhaps an overall, and a one_liner.  Scores   *)
(* are held in tenths: 50 is the 5.0 of the source, 70 its 7.              *)
(***************************************************************************)
batch_size == 5

FenceLine == [fence |-> TRUE, json |-> FALSE, dict |-> FALSE, scores |-> <<>>]

BodyLine(json, dict, scores) ==
  [fence |-> FALSE, json |-> json, dict |-> dict, scores |-> scores]

\* _empty_scores
_empty_scores(reason) ==
  [has_overall |-> TRUE, overall |-> 50, one_liner |-> reason, id |-> <<>>]

\* rank_jobs, lines 67-74
MutUnrankedZero == [has_overall |-> TRUE, overall |-> 0, one_liner |-> "", id |-> <<>>]

UnrankedScores ==
  [has_overall |-> TRUE, overall |-> 50, one_liner |-> "Unranked (no API key)", id |-> <<>>]

\* what the service can say of one job: an overall of 8.0, or no overall
ServiceScore(id, kind) ==
  [has_overall |-> kind = "high", overall |-> IF kind = "high" THEN 80 ELSE 0,
   one_liner |-> "scored", id |-> id]

\* the id of the example in SYSTEM_PROMPT, which is the id of no job
ForeignId == <<"j","o","b","_","i","d">>

\* the texts around one body: bare, fenced, and a lone fence without newline
Texts(body) == { <<body>>, <<FenceLine, body, FenceLine>>, <<FenceLine>> }

\* the score lists a batch reply can hold: for each job of the batch, in
\* order, no record, a record without overall, or a record with one
BatchScoreLists(batch) ==
  LET choices == [1..Len(batch) -> {"absent", "no_overall", "high"}]
      Listed(c) == SelectSeq([n \in 1..Len(batch) |-> n], LAMBDA n : c[n] # "absent")
  IN { [m \in 1..Len(Listed(c)) |-> ServiceScore(batch[Listed(c)[m]].id, c[Listed(c)[m]])]
         : c \in choices }

\* the score lists a single-job reply can hold
SingleScoreLists(job) ==
  { <<>>,
    <<ServiceScore(job.id, "high")>>,
    <<ServiceScore(job.id, "no_overall")>>,
    <<ServiceScore(ForeignId, "high")>> }

\* client.messages.create: it raises, or returns a text
Replies(scoreLists) ==
  {[raised |-> TRUE, text |-> <<>>]} \cup
  { [raised |-> FALSE, text |-> t] :
      t \in UNION { Texts(b) :
        b \in {BodyLine(FALSE, FALSE, <<>>), BodyLine(TRUE, FALSE, <<>>)}
              \cup {BodyLine(TRUE, TRUE, sl) : sl \in scoreLists} } }

\* lines 124-128 and 185-188: strip the fence, json.loads, result.get.
\* The outcome is "ok" with the score list, "JSONDecodeError" or "Exception".
ParseReply(reply) ==
  IF reply.raised THEN [status |-> "Exception", scores |-> <<>>]
  ELSE IF reply.text[1].fence /\ Len(reply.text) = 1
       \* text.split("\n", 1)[1] : IndexError
       THEN [status |-> "Exception", scores |-> <<>>]
  ELSE LET inner == IF reply.text[1].fence
                    THEN SubSeq(reply.text, 2, Len(reply.text) - 1)
                    ELSE reply.text
       IN IF Len(inner) # 1 \/ inner[1].fence \/ ~inner[1].json
          THEN [status |-> "JSONDecodeError", scores |-> <<>>]
          ELSE IF ~inner[1].dict
          \* result.get on a list or a string: AttributeError
          THEN [status |-> "Exception", scores |-> <<>>]
          ELSE [status |-> "ok", scores |-> inner[1].scores]

\* the except clause that handles a request: _score_batch has one for
\* json.JSONDecodeError (line 141) and one for Exception (line 152),
\* _score_single has the one for Exception only (line 194)
Caught(kind, status) ==
  IF status = "ok" THEN "none"
  ELSE IF kind = "batch" THEN status
  ELSE "Exception"

SetScores(job, scores) == [job EXCEPT !.scores = scores, !.keys = @ \cup {"scores"}]

\* _score_batch, lines 129-135: scores_by_id, the last record of an id wins
MutBatchSkipUnscored(job, scores) ==
  LET mine == {n \in 1..Len(scores) : scores[n].id = job.id}
  IN IF mine # {}
     THEN SetScores(job, scores[CHOOSE n \in mine : \A m \in mine : m <= n])
     ELSE job

ScoredById(job, scores) ==
  LET mine == {n \in 1..Len(scores) : scores[n].id = job.id}
  IN IF mine # {}
     THEN SetScores(job, scores[CHOOSE n \in mine : \A m \in mine : m <= n])
     ELSE SetScores(job, _empty_scores("Not scored"))

\* _score_single, lines 178-196
ScoredSingle(job, reply) ==
  LET parsed == ParseReply(reply)
  IN IF parsed.status # "ok" THEN SetScores(job, _empty_scores("Scoring failed"))
     ELSE IF parsed.scores # <<>> THEN SetScores(job, parsed.scores[1])
     ELSE SetScores(job, _empty_scores("No scores returned"))

\* the sort key of line 88: j.get("scores", {}).get("overall", 0)
OverallOrZero(job) ==
  IF "scores" \in job.keys /\ job.scores.has_overall THEN job.scores.overall ELSE 0

\* list.sort(key, reverse=True): a stable sort into descending order
InsertDescending(sorted, job) ==
  LET before == {n \in 1..Len(sorted) : OverallOrZero(sorted[n]) >= OverallOrZero(job)}
      at == IF before = {} THEN 0 ELSE CHOOSE n \in before : \A m \in before : m <= n
  IN SubSeq(sorted, 1, at) \o <<job>> \o SubSeq(sorted, at + 1, Len(sorted))

RECURSIVE SortedDescendingFrom(_, _)
SortedDescendingFrom(done, rest) ==
  IF rest = <<>> THEN done
  ELSE SortedDescendingFrom(InsertDescending(done, Head(rest)), Tail(rest))

MutSortUnstable(jobs) ==
  LET Rev(s) == [n \in 1..Len(s) |-> s[Len(s) + 1 - n]]
  IN SortedDescendingFrom(<<>>, Rev(jobs))

MutSortedKeepsOrder(jobs) == jobs

SortedDescending(jobs) == SortedDescendingFrom(<<>>, jobs)

Min(a, b) == IF a <= b THEN a ELSE b

\* the positions of the batch that starts after batch_start: jobs[i : i + batch_size]
BatchPositions(r) == (r.batch_start + 1)..Min(r.batch_start + batch_size, Len(r.jobs))

BatchOf(r) == SubSeq(r.jobs, r.batch_start + 1, Min(r.batch_start + batch_size, Len(r.jobs)))

\* rank_jobs, lines 61-81
RankStart(p) ==
  /\ run[p].pc = "rank_jobs"
  /\ run' = [run EXCEPT ![p] =
       IF run[p].jobs = <<>>
       THEN [@ EXCEPT !.rankIn = <<>>, !.jobs = <<>>, !.ranked = TRUE,
                      !.pc = ReturnFromRank(run[p])]
       ELSE IF ~config.ANTHROPIC_API_KEY
       THEN [@ EXCEPT !.rankIn = run[p].jobs,
                      !.jobs = [n \in 1..Len(run[p].jobs) |->
                                  SetScores(run[p].jobs[n], UnrankedScores)],
                      !.ranked = TRUE,
                      !.pc = ReturnFromRank(run[p])]
       ELSE [@ EXCEPT !.rankIn = run[p].jobs, !.scored_jobs = <<>>,
                      !.batch_start = 0, !.pc = "score_batch"]]
  /\ UNCHANGED <<seenFile, clock, config, outbox, previewFile>>

MutRetriesEachAlways(batch) == TRUE

\* _score_batch, line 144: a batch of more than one job is scored job by job
\* after a JSONDecodeError
RetriesEach(batch) == Len(batch) > 1

MutBatchFinishedOverlaps(r, jobs) ==
  [r EXCEPT !.jobs = jobs,
            !.scored_jobs = @ \o SubSeq(jobs, r.batch_start + 1,
                                        Min(r.batch_start + batch_size, Len(jobs))),
            !.batch_start = @ + batch_size - 1,
            !.k = 0,
            !.pc = "score_batch"]

\* what line 85 does once _score_batch has returned: extend, next batch
BatchFinished(r, jobs) ==
  [r EXCEPT !.jobs = jobs,
            !.scored_jobs = @ \o SubSeq(jobs, r.batch_start + 1,
                                        Min(r.batch_start + batch_size, Len(jobs))),
            !.batch_start = @ + batch_size,
            !.k = 0,
            !.pc = "score_batch"]

\* rank_jobs, lines 83-85, and _score_batch up to the end of its handlers
ScoreBatch(p) ==
  /\ run[p].pc = "score_batch"
  /\ run[p].batch_start < Len(run[p].jobs)
  /\ \E reply \in Replies(BatchScoreLists(BatchOf(run[p]))) :
       LET parsed == ParseReply(reply)
           r == [run[p] EXCEPT !.requests =
                   Append(@, [kind |-> "batch", sent |-> BatchPositions(run[p]),
                              caught |-> Caught("batch", parsed.status)])]
           With(f(_)) == [n \in 1..Len(r.jobs) |->
                            IF n \in BatchPositions(r) THEN f(r.jobs[n]) ELSE r.jobs[n]]
           ById(job) == ScoredById(job, parsed.scores)
           ApiError(job) == SetScores(job, _empty_scores("API error during scoring"))
           ParseError(job) == SetScores(job, _empty_scores("Parse error during scoring"))
       IN run' = [run EXCEPT ![p] =
            IF parsed.status = "ok" THEN BatchFinished(r, With(ById))
            ELSE IF parsed.status = "Exception" THEN BatchFinished(r, With(ApiError))
            ELSE IF RetriesEach(BatchOf(r))
            THEN [r EXCEPT !.k = r.batch_start + 1, !.pc = "score_single"]
            ELSE BatchFinished(r, With(ParseError))]
  /\ UNCHANGED <<seenFile, clock, config, outbox, previewFile>>

\* _score_batch, lines 146-147: _score_single for the next job of the batch
ScoreSingle(p) ==
  /\ run[p].pc = "score_single"
  /\ \E reply \in Replies(SingleScoreLists(run[p].jobs[run[p].k])) :
       LET r == [run[p] EXCEPT
                   !.requests = Append(@, [kind |-> "single", sent |-> {run[p].k},
                                           caught |-> Caught("single",
                                                             ParseReply(reply).status)]),
                   !.jobs = [@ EXCEPT ![run[p].k] = ScoredSingle(@, reply)]]
       IN run' = [run EXCEPT ![p] =
            IF r.k < Min(r.batch_start + batch_size, Len(r.jobs))
            THEN [r EXCEPT !.k = @ + 1]
            ELSE BatchFinished(r, r.jobs)]
  /\ UNCHANGED <<seenFile, clock, config, outbox, previewFile>>

\* rank_jobs, lines 87-89
RankReturn(p) ==
  /\ run[p].pc = "score_batch"
  /\ run[p].batch_start >= Len(run[p].jobs)
  /\ run' = [run EXCEPT ![p] =
       [@ EXCEPT !.scored_jobs = SortedDescending(run[p].scored_jobs),
                 !.jobs = SortedDescending(run[p].scored_jobs),
                 !.ranked = TRUE,
                 !.pc = ReturnFromRank(run[p])]]
  /\ UNCHANGED <<seenFile, clock, config, outbox, previewFile>>

(***************************************************************************)
(* The scorer alone: rank_jobs called on a list the filter stage returned  *)
(***************************************************************************)
MaxRankJobs == 6

DecimalDigits == <<"1","2","3","4","5","6","7","8","9">>

\* the n-th of the distinct new postings handed to the scorer
FilteredJob(n) ==
  DedupBody(EmptyDict, <<>>,
            RawJob(<<"V","P">>, <<"F","i","r","m"," ", DecimalDigits[n]>>, <<"I","L">>,
                   DirectUrl),
            IsoDate(StartDay)).job

RankInputs == { [n \in 1..len |-> FilteredJob(n)] : len \in 1..MaxRankJobs }

InitRank ==
  /\ seenFile = [exists |-> FALSE, valid |-> TRUE, data |-> EmptyDict]
  /\ clock = StartDay
  /\ config \in { [SerpOnly EXCEPT !.ANTHROPIC_API_KEY = key] : key \in BOOLEAN }
  /\ run \in { [p \in {1} |-> [Locals("rank_jobs", NoArgs, 1, NotAgain) EXCEPT !.jobs = jobs]]
                 : jobs \in RankInputs }
  /\ outbox = <<>>
  /\ previewFile = <<>>

NextRank ==
  \/ \E p \in DOMAIN run : RankStart(p)
  \/ \E p \in DOMAIN run : ScoreBatch(p)
  \/ \E p \in DOMAIN run : ScoreSingle(p)
  \/ \E p \in DOMAIN run : RankReturn(p)

SpecRank == InitRank /\ [][NextRank]_vars

(***************************************************************************)
(* email_sender.py.  The HTML of a digest is held as what it shows: the    *)
(* date, the counts of the header, the placeholder of an empty digest, the *)
(* rows of the quick-reference table, the cards of the top matches and the *)
(* rows of the other listings, each with its rank and its anchor.  The     *)
(* keys id, url_is_search and scores of a job are present when they are in *)
(* its keys; the other keys are present unless they are in its missing.    *)
(***************************************************************************)
\* f"job-{job.get('id', rank)}"
AnchorId(job, rank) ==
  <<"j","o","b","-">> \o (IF "id" \in job.keys THEN job.id ELSE <<DecimalDigits[rank]>>)

\* _build_toc_table, lines 299-300: if len(title) > 45: title[:42] + "..."
TocTitle(title) ==
  IF Len(title) > 45 THEN SubSeq(title, 1, 42) \o <<".",".",".">> ELSE title

\* _build_toc_table: the row of a job, numbered i + 1
TocRow(job, rank) ==
  [rank |-> rank, anchor |-> AnchorId(job, rank),
   title |-> IF "title" \in job.missing
             THEN <<"U","n","t","i","t","l","e","d">>
             ELSE TocTitle(job.title),
   company |-> IF "company" \in job.missing THEN <<>> ELSE job.company,
   overall |-> OverallOrZero(job)]

_build_toc_table(jobs) == [n \in 1..Len(jobs) |-> TocRow(jobs[n], n)]

\* _build_job_card and _build_summary_row: what they show of a job
_build_job_card(job, rank) ==
  [rank |-> rank, anchor |-> AnchorId(job, rank), title |-> job.title,
   company |-> job.company, overall |-> OverallOrZero(job), url |-> job.url,
   url_is_search |-> "url_is_search" \in job.keys /\ job.url_is_search]

_build_summary_row(job, rank) ==
  [rank |-> rank, anchor |-> AnchorId(job, rank), title |-> job.title,
   company |-> job.company, overall |-> OverallOrZero(job), url |-> job.url,
   url_is_search |-> FALSE]

MutIsTopAboveSeven(job) == OverallOrZero(job) > 70

\* build_email_html, lines 386-387: the 7 threshold
IsTop(job) == OverallOrZero(job) >= 70

\* job["title"] and job['company'] of lines 102, 224, 266 and 276: KeyError
RowRaises(job) == "title" \in job.missing \/ "company" \in job.missing

\* build_email_html raises when one of its cards or rows does
RenderRaises(jobs) == \E n \in 1..Len(jobs) : RowRaises(jobs[n])

MutBuildNoPlaceholder(jobs, now) ==
  LET top_jobs == SelectSeq(jobs, IsTop)
      other_jobs == SelectSeq(jobs, LAMBDA j : ~IsTop(j))
  IN [today |-> IsoDate(now),
      job_count |-> Len(jobs),
      high_score |-> Len(top_jobs),
      remote_count |-> Cardinality({n \in 1..Len(jobs) :
                         /\ "location" \notin jobs[n].missing
                         /\ Contains(<<"r","e","m","o","t","e">>,
                                     Lower(jobs[n].location))}),
      placeholder |-> FALSE,
      no_top_notice |-> top_jobs = <<>>,
      toc |-> _build_toc_table(jobs),
      cards |-> [n \in 1..Len(top_jobs) |-> _build_job_card(top_jobs[n], n)],
      other |-> [n \in 1..Len(other_jobs) |->
                   _build_summary_row(other_jobs[n], n + Len(top_jobs))]]

\* build_email_html
build_email_html(jobs, now) ==
  LET top_jobs == SelectSeq(jobs, IsTop)
      other_jobs == SelectSeq(jobs, LAMBDA j : ~IsTop(j))
  IN [today |-> IsoDate(now),
      job_count |-> Len(jobs),
      high_score |-> Len(top_jobs),
      remote_count |-> Cardinality({n \in 1..Len(jobs) :
                         /\ "location" \notin jobs[n].missing
                         /\ Contains(<<"r","e","m","o","t","e">>,
                                     Lower(jobs[n].location))}),
      placeholder |-> jobs = <<>>,
      no_top_notice |-> jobs # <<>> /\ top_jobs = <<>>,
      toc |-> _build_toc_table(jobs),
      cards |-> [n \in 1..Len(top_jobs) |-> _build_job_card(top_jobs[n], n)],
      other |-> [n \in 1..Len(other_jobs) |->
                   _build_summary_row(other_jobs[n], n + Len(top_jobs))]]

\* send_email, lines 504-508: the subject of the message
Subject(jobs, now) ==
  [today |-> IsoDate(now), listings |-> Len(jobs),
   strong |-> Len(SelectSeq(jobs, IsTop))]

\* send_email.  service is what resend.Emails.send does if it is called:
\* "accepts" or "raises".  The result tells what was sent, what was written
\* to /tmp/job-digest-preview.html, what was returned and whether an
\* exception left the function.
MutSendNoFallback(jobs, now, key, service) ==
  IF ~key
  THEN [accepted |-> FALSE, sent |-> <<>>, written |-> <<build_email_html(jobs, now)>>,
        returned |-> FALSE, raised |-> FALSE]
  ELSE IF service = "accepts"
  THEN [accepted |-> TRUE,
        sent |-> <<[subject |-> Subject(jobs, now), html |-> build_email_html(jobs, now)]>>,
        written |-> <<>>, returned |-> TRUE, raised |-> FALSE]
  ELSE [accepted |-> FALSE, sent |-> <<>>, written |-> <<>>,
        returned |-> FALSE, raised |-> TRUE]

send_email(jobs, now, key, service) ==
  IF RenderRaises(jobs)
  THEN [accepted |-> FALSE, sent |-> <<>>, written |-> <<>>,
        returned |-> FALSE, raised |-> TRUE]
  ELSE IF ~key
  THEN [accepted |-> FALSE, sent |-> <<>>, written |-> <<build_email_html(jobs, now)>>,
        returned |-> FALSE, raised |-> FALSE]
  ELSE IF service = "accepts"
  THEN [accepted |-> TRUE,
        sent |-> <<[subject |-> Subject(jobs, now), html |-> build_email_html(jobs, now)]>>,
        written |-> <<>>, returned |-> TRUE, raised |-> FALSE]
  ELSE [accepted |-> FALSE, sent |-> <<>>, written |-> <<build_email_html(jobs, now)>>,
        returned |-> FALSE, raised |-> FALSE]

SendEmail(p) ==
  /\ run[p].pc = "send_email"
  /\ \E service \in {"accepts", "raises"} :
       LET res == send_email(run[p].jobs, clock, config.RESEND_API_KEY, service)
       IN /\ outbox' = outbox \o [n \in 1..Len(res.sent) |->
                                   [runNo |-> run[p].runNo, subject |-> res.sent[n].subject,
                                    html |-> res.sent[n].html]]
          /\ previewFile' = IF res.written # <<>> THEN res.written ELSE previewFile
          /\ run' = [run EXCEPT ![p] =
               [@ EXCEPT !.delivery = [invoked |-> TRUE, service |-> service,
                                       returned |-> res.returned, raised |-> res.raised,
                                       jobs |-> run[p].jobs],
                         !.pc = IF res.raised THEN "crashed" ELSE "exit"]]
  /\ UNCHANGED <<seenFile, clock, config>>

\* build_email_html called on its own
BuildEmail(p) ==
  /\ run[p].pc = "build_email_html"
  /\ run' = [run EXCEPT ![p] =
       IF RenderRaises(run[p].jobs)
       THEN [@ EXCEPT !.pc = "crashed"]
       ELSE [@ EXCEPT !.html = <<build_email_html(run[p].jobs, clock)>>, !.pc = "exit"]]
  /\ UNCHANGED <<seenFile, clock, config, outbox, previewFile>>

(***************************************************************************)
(* The presenter alone: build_email_html on lists of up to MaxRenderJobs   *)
(* jobs.  The n-th job is a posting of firm n, scored in one of five ways  *)
(* or with one of its keys absent.                                         *)
(***************************************************************************)
MaxRenderJobs == 3

Scored(job, overall) ==
  SetScores(job, [has_overall |-> TRUE, overall |-> overall, one_liner |-> "scored",
                  id |-> job.id])

Without(job, key) ==
  IF key \in {"id", "url_is_search", "scores"}
  THEN [job EXCEPT !.keys = @ \ {key}]
  ELSE [job EXCEPT !.missing = @ \cup {key}]

RenderVariants(n) ==
  { FilteredJob(n),
    SetScores(FilteredJob(n), ServiceScore(FilteredJob(n).id, "no_overall")),
    Scored(FilteredJob(n), 65),
    Scored(FilteredJob(n), 70),
    Scored(FilteredJob(n), 95),
    Without(Scored(FilteredJob(n), 95), "title"),
    Without(Scored(FilteredJob(n), 65), "company"),
    Without(Scored(FilteredJob(n), 70), "id"),
    Without(Scored(FilteredJob(n), 65), "location") }

RECURSIVE RenderInputsOf(_)
RenderInputsOf(len) ==
  IF len = 0 THEN {<<>>}
  ELSE {Append(jobs, job) : jobs \in RenderInputsOf(len - 1), job \in RenderVariants(len)}

RenderInputs == UNION {RenderInputsOf(len) : len \in 0..MaxRenderJobs}

InitRender ==
  /\ seenFile = [exists |-> FALSE, valid |-> TRUE, data |-> EmptyDict]
  /\ clock = StartDay
  /\ config = SerpOnly
  /\ run \in { [p \in {1} |->
                  [Locals("build_email_html", NoArgs, 1, NotAgain) EXCEPT !.jobs = jobs]]
                 : jobs \in RenderInputs }
  /\ outbox = <<>>
  /\ previewFile = <<>>

NextRender == \E p \in DOMAIN run : BuildEmail(p)

SpecRender == InitRender /\ [][NextRender]_vars

(***************************************************************************)
(* main.py                                                                 *)
(***************************************************************************)
SampleJob(id, title, company, location, url, url_is_search, overall) ==
  [title |-> title, company |-> company, location |-> location, url |-> url,
   source |-> "", keys |-> {"id", "url_is_search", "scores"}, missing |-> {},
   id |-> id,
   url_is_search |-> url_is_search,
   scores |-> [has_overall |-> TRUE, overall |-> overall, one_liner |-> "sample",
               id |-> <<>>]]

_sample_jobs ==
  <<
     SampleJob(<<"s","a","m","p","l","e","0","0","1">>,
               <<"S","e","n","i","o","r"," ","P","a","r","t","n","e","r",","," ","D","i","g","i","t","a","l"," ","T","r","a","n","s","f","o","r","m","a","t","i","o","n">>,
               <<"M","c","K","i","n","s","e","y"," ","&"," ","C","o","m","p","a","n","y">>,
               <<"C","h","i","c","a","g","o",","," ","I","L">>,
               <<"h","t","t","p","s",":","/","/","e","x","a","m","p","l","e",".","c","o","m","/","j","o","b","/","1">>,
               FALSE, 95),
     SampleJob(<<"s","a","m","p","l","e","0","0","2">>,
               <<"M","a","n","a","g","i","n","g"," ","D","i","r","e","c","t","o","r",","," ","I","n","d","u","s","t","r","i","a","l"," ","T","e","c","h","n","o","l","o","g","y">>,
               <<"A","c","c","e","n","t","u","r","e">>,
               <<"C","h","i","c","a","g","o",","," ","I","L"," ","(","H","y","b","r","i","d",")">>,
               <<"h","t","t","p","s",":","/","/","e","x","a","m","p","l","e",".","c","o","m","/","j","o","b","/","2">>,
               FALSE, 90),
     SampleJob(<<"s","a","m","p","l","e","0","0","3">>,
               <<"C","h","i","e","f"," ","D","i","g","i","t","a","l"," ","O","f","f","i","c","e","r">>,
               <<"I","l","l","i","n","o","i","s"," ","T","o","o","l"," ","W","o","r","k","s">>,
               <<"C","h","i","c","a","g","o",","," ","I","L">>,
               <<"h","t","t","p","s",":","/","/","e","x","a","m","p","l","e",".","c","o","m","/","j","o","b","/","3">>,
               FALSE, 85),
     SampleJob(<<"s","a","m","p","l","e","0","0","4">>,
               <<"V","P",","," ","S","t","r","a","t","e","g","y"," ","&"," ","O","p","e","r","a","t","i","o","n","s">>,
               <<"B","a","i","n"," ","&"," ","C","o","m","p","a","n","y">>,
               <<"R","e","m","o","t","e"," ","(","U","S",")">>,
               <<"h","t","t","p","s",":","/","/","e","x","a","m","p","l","e",".","c","o","m","/","j","o","b","/","4">>,
               FALSE, 80),
     SampleJob(<<"s","a","m","p","l","e","0","0","5">>,
               <<"S","V","P",","," ","D","i","g","i","t","a","l"," ","S","o","l","u","t","i","o","n","s">>,
               <<"R","o","c","k","w","e","l","l"," ","A","u","t","o","m","a","t","i","o","n">>,
               <<"C","h","i","c","a","g","o",","," ","I","L"," ","(","H","y","b","r","i","d",")">>,
               <<"h","t","t","p","s",":","/","/","e","x","a","m","p","l","e",".","c","o","m","/","j","o","b","/","5">>,
               FALSE, 75),
     SampleJob(<<"s","a","m","p","l","e","0","0","6">>,
               <<"D","i","r","e","c","t","o","r",","," ","T","e","c","h","n","o","l","o","g","y"," ","C","o","n","s","u","l","t","i","n","g">>,
               <<"S","l","a","l","o","m">>,
               <<"C","h","i","c","a","g","o",","," ","I","L">>,
               <<>>,
               TRUE, 55)
  >>

MutMainStartAlwaysFetches(p) ==
  /\ run[p].pc = "main"
  /\ run' = [run EXCEPT ![p] = [@ EXCEPT !.pc = "fetch_jobs"]]
  /\ UNCHANGED <<seenFile, clock, config, outbox, previewFile>>

\* main, lines 28-33
MainStart(p) ==
  /\ run[p].pc = "main"
  /\ run' = [run EXCEPT ![p] =
       IF run[p].args.preview
       THEN [@ EXCEPT !.jobs = _sample_jobs, !.pc = "main_output"]
       ELSE [@ EXCEPT !.pc = "fetch_jobs"]]
  /\ UNCHANGED <<seenFile, clock, config, outbox, previewFile>>

MutMainFetchedSkipsDigest(p) ==
  /\ run[p].pc = "main_fetched"
  /\ run' = [run EXCEPT ![p] =
       IF run[p].jobs = <<>>
       THEN [@ EXCEPT !.pc = "exit"]
       ELSE [@ EXCEPT !.pc = "rank_jobs"]]
  /\ UNCHANGED <<seenFile, clock, config, outbox, previewFile>>

\* main, lines 35-41: fetch_jobs has returned
MainFetched(p) ==
  /\ run[p].pc = "main_fetched"
  /\ run' = [run EXCEPT ![p] =
       IF run[p].jobs = <<>>
       THEN [@ EXCEPT !.pc = "send_email"]
       ELSE [@ EXCEPT !.pc = "rank_jobs"]]
  /\ UNCHANGED <<seenFile, clock, config, outbox, previewFile>>

\* main, lines 43-52
MainOutput(p) ==
  /\ run[p].pc = "main_output"
  /\ IF (run[p].args.dry_run \/ run[p].args.preview) /\ RenderRaises(run[p].jobs)
     THEN /\ previewFile' = previewFile
          /\ run' = [run EXCEPT ![p] = [@ EXCEPT !.pc = "crashed"]]
     ELSE IF run[p].args.dry_run \/ run[p].args.preview
     THEN /\ previewFile' = <<build_email_html(run[p].jobs, clock)>>
          /\ run' = [run EXCEPT ![p] = [@ EXCEPT !.pc = "exit"]]
     ELSE /\ previewFile' = previewFile
          /\ run' = [run EXCEPT ![p] = [@ EXCEPT !.pc = "send_email"]]
  /\ UNCHANGED <<seenFile, clock, config, outbox>>

(***************************************************************************)
(* The whole program: one run of main.py                                   *)
(***************************************************************************)
MainConfigs ==
  { [SERPAPI_KEY |-> serp, RAPIDAPI_KEY |-> FALSE, ANTHROPIC_API_KEY |-> anthropic,
     RESEND_API_KEY |-> resend, SCAN_CAREER_PAGES |-> FALSE] :
      serp \in BOOLEAN, anthropic \in BOOLEAN, resend \in BOOLEAN }

Init ==
  /\ seenFile \in {s \in InitStores : DOMAIN s.data \subseteq {_job_id(RawPool[1])}}
                  \cup {CorruptStore}
  /\ clock = StartDay
  /\ config \in MainConfigs
  /\ run \in { [p \in {1} |-> Locals("main", args, 1, NotAgain)]
                 : args \in [dry_run : BOOLEAN, preview : BOOLEAN] }
  /\ outbox = <<>>
  /\ previewFile = <<>>

Next ==
  \/ \E p \in DOMAIN run : MainStart(p)
  \/ \E p \in DOMAIN run : Gather(p)
  \/ \E p \in DOMAIN run : LoadSeen(p)
  \/ \E p \in DOMAIN run : DedupStep(p)
  \/ \E p \in DOMAIN run : SaveSeen(p)
  \/ \E p \in DOMAIN run : PruneSeen(p)
  \/ \E p \in DOMAIN run : MainFetched(p)
  \/ \E p \in DOMAIN run : RankStart(p)
  \/ \E p \in DOMAIN run : ScoreBatch(p)
  \/ \E p \in DOMAIN run : ScoreSingle(p)
  \/ \E p \in DOMAIN run : RankReturn(p)
  \/ \E p \in DOMAIN run : MainOutput(p)
  \/ \E p \in DOMAIN run : SendEmail(p)
  \/ Midnight

Spec == Init /\ [][Next]_vars

(***************************************************************************)
(* A run of main.py and the run that follows it, to which the backends     *)
(* return what they returned to the first.  reported holds, for the second *)
(* run, the fingerprints the first passed on from fetch_jobs, with the day *)
(* of their date and the way the first run ended.                          *)
(***************************************************************************)
\* main, lines 43-52, and send_email: how a run got rid of its digest
Ending(r) ==
  IF r.args.dry_run THEN "dry_run"
  ELSE IF r.delivery.invoked /\ r.delivery.returned THEN "sent"
  ELSE "send_failed"

\* main, line 31: the list fetch_jobs returned
Passed(r) ==
  IF r.filtered
  THEN {<<r.unique_jobs[n].id, DayNum(r.today), Ending(r)>> : n \in 1..Len(r.unique_jobs)}
  ELSE {}

Redigest(p) ==
  /\ run[p].pc \in {"exit", "crashed"}
  /\ ~run[p].args.preview
  /\ ~run[p].again.same
  /\ \E d \in RunGaps :
       /\ clock + d <= MaxDay
       /\ clock' = clock + d
  /\ \E dry \in BOOLEAN :
       run' = [run EXCEPT ![p] =
         [Locals("main", [dry_run |-> dry, preview |-> FALSE], run[p].runNo + 1,
                 [same |-> TRUE, rawIn |-> run[p].rawIn, today |-> run[p].today,
                  pruned |-> run[p].pruned])
            EXCEPT !.reported = Passed(run[p])]]
  /\ UNCHANGED <<seenFile, config, outbox, previewFile>>

InitDigests ==
  /\ seenFile \in {s \in InitStores : DOMAIN s.data = {}}
  /\ clock = StartDay
  /\ config \in {c \in MainConfigs : c.SERPAPI_KEY}
  /\ run \in { [p \in {1} |-> Locals("main", [dry_run |-> dry, preview |-> FALSE], 1, NotAgain)]
                 : dry \in BOOLEAN }
  /\ outbox = <<>>
  /\ previewFile = <<>>

NextDigests ==
  \/ Next
  \/ \E p \in DOMAIN run : Redigest(p)

SpecDigests == InitDigests /\ [][NextDigests]_vars

\* the one process of a run of the script
MainProc == 1

\* a step of the script: the interpreter goes on to the next statement
\* as long as there is one
Step(p) ==
  \/ MainStart(p) \/ Gather(p) \/ LoadSeen(p) \/ DedupStep(p) \/ SaveSeen(p)
  \/ PruneSeen(p) \/ MainFetched(p) \/ RankStart(p) \/ ScoreBatch(p)
  \/ ScoreSingle(p) \/ RankReturn(p) \/ MainOutput(p) \/ SendEmail(p)

LiveSpec == Spec /\ WF_vars(Step(MainProc))

(***************************************************************************)
(* Properties of the filter stage                                          *)
(***************************************************************************)
\* fetch_jobs has run its loop, both saves and the prune, and has returned
FilterDone(p) == run[p].filtered /\ run[p].pc \in {"exit", "main_fetched"}

Deloitte == <<"d","e","l","o","i","t","t","e">>

\* the company names an excluded firm, in any spelling of upper and lower case
NamesExcludedFirm(company) ==
  \E k \in 0..(Len(company) - Len(Deloitte)) :
    \A n \in 1..Len(Deloitte) : LowerChar(company[k + n]) = Deloitte[n]

\* the positions of the raw input that are to be kept: not of an excluded
\* firm, fingerprint not in the store as loaded, and not met earlier in
\* this input
KeepIdx(p) ==
  { i \in 1..Len(run[p].rawIn) :
      /\ ~NamesExcludedFirm(run[p].rawIn[i].company)
      /\ _job_id(run[p].rawIn[i]) \notin DOMAIN run[p].loaded
      /\ \A j \in 1..(i - 1) : _job_id(run[p].rawIn[j]) # _job_id(run[p].rawIn[i]) }

KthSmallest(S, k) == CHOOSE x \in S : Cardinality({y \in S : y < x}) = k - 1

SameDayRerun(p) ==
  FilterDone(p) /\ run[p].again.same /\ run[p].again.today = run[p].today

\* C1 as stated: a second run of fetch_jobs on the same raw input and on the
\* store the first run left, on the same day, returns the empty list.
C1_SecondRunEmpty ==
  \A p \in DOMAIN run : SameDayRerun(p) => run[p].unique_jobs = <<>>

\* C1, amended: a second run of fetch_jobs on the same raw input and on the
\* store the first run left, on the same day, returns exactly the jobs (not
\* of an excluded firm, one per fingerprint) whose fingerprint the prune step
\* of the first run removed from the store, and so the empty list whenever
\* the first run pruned no fingerprint of the raw input.
C1_SecondRunOnlyPruned ==
  \A p \in DOMAIN run :
    SameDayRerun(p) =>
      LET resurfacing ==
            { i \in 1..Len(run[p].rawIn) :
                /\ ~NamesExcludedFirm(run[p].rawIn[i].company)
                /\ _job_id(run[p].rawIn[i]) \in run[p].again.pruned }
      IN /\ {run[p].unique_jobs[k].id : k \in 1..Len(run[p].unique_jobs)}
              = {_job_id(run[p].rawIn[i]) : i \in resurfacing}
         /\ resurfacing = {} => run[p].unique_jobs = <<>>

\* a same-day rerun whose input holds a job that the first run recorded, and
\* that returns nothing
C1_Witness ==
  \E p \in DOMAIN run :
    /\ SameDayRerun(p)
    /\ \E i \in 1..Len(run[p].rawIn) : ~NamesExcludedFirm(run[p].rawIn[i].company)
    /\ run[p].again.pruned = {}
    /\ run[p].unique_jobs = <<>>

\* C2: the output of the filter stage is the raw input restricted, in order,
\* to the jobs that are not of an excluded firm and whose fingerprint was not
\* in the store when the job was processed (not in the loaded store and not
\* recorded earlier in this run); each output job carries its fingerprint as
\* id, and no two output jobs share a fingerprint.
C2_OutputIsNewSubsequence ==
  \A p \in DOMAIN run :
    FilterDone(p) =>
      /\ Len(run[p].unique_jobs) = Cardinality(KeepIdx(p))
      /\ \A k \in 1..Len(run[p].unique_jobs) :
           LET i == KthSmallest(KeepIdx(p), k)
               job == run[p].unique_jobs[k]
           IN /\ job.title = run[p].rawIn[i].title
              /\ job.company = run[p].rawIn[i].company
              /\ job.location = run[p].rawIn[i].location
              /\ job.source = run[p].rawIn[i].source
              /\ "id" \in job.keys
              /\ job.id = _job_id(run[p].rawIn[i])
              /\ job = run[p].raw_jobs[i]
      /\ \A k, l \in 1..Len(run[p].unique_jobs) :
           k # l => run[p].unique_jobs[k].id # run[p].unique_jobs[l].id

\* the same posting twice in one input: one copy is output
C2_Witness ==
  \E p \in DOMAIN run :
    /\ FilterDone(p)
    /\ Len(run[p].rawIn) = 2
    /\ run[p].rawIn[1] # run[p].rawIn[2]
    /\ _job_id(run[p].rawIn[1]) = _job_id(run[p].rawIn[2])
    /\ Len(run[p].unique_jobs) = 1

\* C3: a job whose company contains an exclusion-list entry, compared without
\* regard to case, is never in the output of the filter stage.
C3_ExcludedNeverOutput ==
  \A p \in DOMAIN run :
    \A k \in 1..Len(run[p].unique_jobs) :
      ~NamesExcludedFirm(run[p].unique_jobs[k].company)

\* an input with a new job and a job of an excluded firm: only the first is output
C3_Witness ==
  \E p \in DOMAIN run :
    /\ FilterDone(p)
    /\ \E i \in 1..Len(run[p].rawIn) : NamesExcludedFirm(run[p].rawIn[i].company)
    /\ Len(run[p].unique_jobs) = 1

\* C4: every output job has a non-empty url; url_is_search is true exactly
\* when the backend gave no url; a url the backend gave is kept; a
\* synthesized url is a search link, and two synthesized urls of jobs with
\* the same title and company are the same whatever else differs.
C4_UrlGuarantee ==
  \A p \in DOMAIN run :
    FilterDone(p) =>
      /\ Len(run[p].unique_jobs) = Cardinality(KeepIdx(p))
      /\ \A k \in 1..Len(run[p].unique_jobs) :
           LET src == run[p].rawIn[KthSmallest(KeepIdx(p), k)]
               job == run[p].unique_jobs[k]
           IN /\ job.url # <<>>
              /\ "url_is_search" \in job.keys
              /\ job.url_is_search <=> (src.url = <<>>)
              /\ ~job.url_is_search => job.url = src.url
              /\ job.url_is_search =>
                   /\ StartsWith(job.url, GoogleSearchPrefix)
                   /\ ~Contains(<<" ">>, job.url)
      /\ \A k, l \in 1..Len(run[p].unique_jobs) :
           LET a == run[p].unique_jobs[k]
               b == run[p].unique_jobs[l]
           IN (a.url_is_search /\ b.url_is_search
               /\ a.title = b.title /\ a.company = b.company) => a.url = b.url

\* an output with a job whose url was given and two jobs, of the same title
\* and company, whose url was synthesized
C4_Witness ==
  \E p \in DOMAIN run :
    /\ FilterDone(p)
    /\ \E k, l \in 1..Len(run[p].unique_jobs) :
         /\ k # l
         /\ run[p].unique_jobs[k].url_is_search
         /\ ~run[p].unique_jobs[l].url_is_search

\* C5: after the prune step the store holds exactly the entries of the first
\* save whose date is at most 30 days before the date on which the prune
\* ran: an entry 30 days old is kept, an entry 31 or more days old is gone.
C5_PruneLaw ==
  \A p \in DOMAIN run :
    FilterDone(p) =>
      /\ DOMAIN seenFile.data =
           { k \in DOMAIN run[p].ingested :
               run[p].pruneDay - DayNum(run[p].ingested[k]) <= 30 }
      /\ \A k \in DOMAIN seenFile.data : seenFile.data[k] = run[p].ingested[k]

\* a prune that met an entry exactly 30 days old, an entry 31 days old and
\* an entry of the day
C5_Witness ==
  \E p \in DOMAIN run :
    /\ FilterDone(p)
    /\ \E k \in DOMAIN run[p].ingested :
         run[p].pruneDay - DayNum(run[p].ingested[k]) = 30
    /\ \E k \in DOMAIN run[p].ingested :
         run[p].pruneDay - DayNum(run[p].ingested[k]) = 31
    /\ \E k \in DOMAIN run[p].ingested :
         run[p].pruneDay - DayNum(run[p].ingested[k]) = 0


(***************************************************************************)
(* Properties of the scorer                                                *)
(***************************************************************************)
RankDone(p) == run[p].ranked

\* a job as it was before any scores were attached
Unscored(job) == [job EXCEPT !.scores = NoScores, !.keys = @ \ {"scores"}]

DefaultMarkers ==
  {"Unranked (no API key)", "Not scored", "Parse error during scoring",
   "API error during scoring", "Scoring failed", "No scores returned"}

IsDefaultBlock(scores) ==
  scores.has_overall /\ scores.overall = 50 /\ scores.one_liner \in DefaultMarkers

IsReturnedBlock(scores) == scores.one_liner = "scored"

HasScoresBlock(job) ==
  "scores" \in job.keys /\ (IsDefaultBlock(job.scores) \/ IsReturnedBlock(job.scores))

\* the overall score of a job, a missing one counted as 0
OverallOf(job) ==
  IF "scores" \in job.keys /\ job.scores.has_overall THEN job.scores.overall ELSE 0

\* where a returned job stood in the list rank_jobs was called with
InputPos(p, job) == CHOOSE n \in 1..Len(run[p].rankIn) : run[p].rankIn[n].id = job.id

C7_SortLaw ==
  \A p \in DOMAIN run :
    RankDone(p) =>
      \A a, b \in 1..Len(run[p].jobs) :
        a < b =>
          /\ OverallOf(run[p].jobs[a]) >= OverallOf(run[p].jobs[b])
          /\ OverallOf(run[p].jobs[a]) = OverallOf(run[p].jobs[b])
               => InputPos(p, run[p].jobs[a]) < InputPos(p, run[p].jobs[b])

\* a returned list that the sort reordered, with a tie of two jobs and a job
\* without overall in it
C7_Witness ==
  \E p \in DOMAIN run :
    /\ RankDone(p)
    /\ \E a, b \in 1..Len(run[p].jobs) :
         a < b /\ InputPos(p, run[p].jobs[a]) > InputPos(p, run[p].jobs[b])
    /\ \E a, b \in 1..Len(run[p].jobs) :
         /\ a < b
         /\ OverallOf(run[p].jobs[a]) = OverallOf(run[p].jobs[b])
         /\ OverallOf(run[p].jobs[a]) > 0
    /\ \E a \in 1..Len(run[p].jobs) : ~run[p].jobs[a].scores.has_overall

\* C8: No scoring credential.  Without ANTHROPIC_API_KEY rank_jobs sends no
\* request to the scoring service, and returns the input jobs in their input
\* order, each with a scores block of overall 5.0 (50 tenths) and the
\* unranked marker.
C8_NoCredential ==
  \A p \in DOMAIN run :
    ~config.ANTHROPIC_API_KEY =>
      /\ run[p].requests = <<>>
      /\ (RankDone(p) /\ run[p].rankIn # <<>>) =>
           /\ Len(run[p].jobs) = Len(run[p].rankIn)
           /\ \A n \in 1..Len(run[p].jobs) :
                /\ Unscored(run[p].jobs[n]) = run[p].rankIn[n]
                /\ "scores" \in run[p].jobs[n].keys
                /\ run[p].jobs[n].scores.has_overall
                /\ run[p].jobs[n].scores.overall = 50
                /\ run[p].jobs[n].scores.one_liner = "Unranked (no API key)"

C8_Witness ==
  \E p \in DOMAIN run :
    /\ ~config.ANTHROPIC_API_KEY
    /\ RankDone(p)
    /\ Len(run[p].rankIn) >= 2

(***************************************************************************)
(* Properties of delivery and of the modes of main.py                      *)
(***************************************************************************)
\* the messages the email service accepted in the current run of p
SentBy(p) == SelectSeq(outbox, LAMBDA msg : msg.runNo = run[p].runNo)

C10_DryRunNeverDelivers ==
  \A p \in DOMAIN run :
    run[p].args.dry_run =>
      /\ ~run[p].delivery.invoked
      /\ SentBy(p) = <<>>

(***************************************************************************)
(* Properties of the modes and of the paths through main.py                *)
(***************************************************************************)
\* C11: Preview mode.  In a run started with --preview no search backend is
\* sent a request, no request goes to the scoring service, send_email is not
\* called and no email is sent, the store is neither loaded nor saved and no
\* step of the run changes the stored file; once the run has left its first
\* step the jobs it works on are the built-in sample jobs.
C11_PreviewIsolated ==
  /\ [](\A p \in DOMAIN run :
          run[p].args.preview =>
            /\ run[p].called = {}
            /\ run[p].requests = <<>>
            /\ ~run[p].delivery.invoked
            /\ SentBy(p) = <<>>
            /\ run[p].reads = 0 /\ run[p].writes = 0
            /\ ~run[p].filtered /\ ~run[p].ranked
            /\ run[p].pc # "main" => run[p].jobs = _sample_jobs)
  /\ [][(\E p \in DOMAIN run : run[p].args.preview) => seenFile' = seenFile]_vars

\* a preview run that has ended, with the stored file holding entries and
\* every credential configured
C11_Witness ==
  \E p \in DOMAIN run :
    /\ run[p].args.preview
    /\ run[p].pc = "exit"
    /\ config.SERPAPI_KEY /\ config.ANTHROPIC_API_KEY /\ config.RESEND_API_KEY
    /\ seenFile.exists
    /\ previewFile = <<build_email_html(_sample_jobs, clock)>>


\* fetch_jobs has returned the empty list to main in a run without --preview
EmptyFetched(p) ==
  /\ run[p].entry = "main" /\ ~run[p].args.preview
  /\ \/ run[p].pc \in {"main_fetched", "send_email", "exit"}
     \/ run[p].pc = "crashed" /\ run[p].delivery.invoked
  /\ run[p].jobs = <<>>

\* the render of the empty digest: the placeholder and nothing else
IsEmptyDigest(html) ==
  html.placeholder /\ html.toc = <<>> /\ html.cards = <<>> /\ html.other = <<>>

DigestProduced(p) == SentBy(p) # <<>> \/ previewFile # <<>>

\* C13: No stage aborts the run.  Whatever the credentials, the answers of
\* the services and the content of the stored file, no run ends in an
\* uncaught exception, and a run that has ended has produced a digest.
C13_NoStageAborts ==
  \A p \in DOMAIN run :
    /\ run[p].pc # "crashed"
    /\ run[p].pc = "exit" => DigestProduced(p)


(***************************************************************************)
(* Properties of the presenter                                             *)
(***************************************************************************)
\* build_email_html has returned in a call of its own
Rendered(p) == run[p].entry = "build_email_html" /\ run[p].pc = "exit"

\* the cards and the rows of the returned document that show job n, which is
\* the only job of firm n
CardsOf(p, n) ==
  {m \in 1..Len(run[p].html[1].cards) :
     run[p].html[1].cards[m].company = run[p].jobs[n].company}

RowsOf(p, n) ==
  {m \in 1..Len(run[p].html[1].other) :
     run[p].html[1].other[m].company = run[p].jobs[n].company}

\* C14: Partition by the threshold.  In the document rendered from a
\* non-empty list every job is shown exactly once in the two detail sections:
\* as a card and not as a row when its overall score is at least 7, as a row
\* and not as a card otherwise, a job without scores or without overall
\* counting as 0.
C14_PartitionByThreshold ==
  \A p \in DOMAIN run :
    (Rendered(p) /\ run[p].jobs # <<>>) =>
      /\ Len(run[p].html[1].cards) + Len(run[p].html[1].other) = Len(run[p].jobs)
      /\ \A n \in 1..Len(run[p].jobs) :
           IF OverallOf(run[p].jobs[n]) >= 70
           THEN Cardinality(CardsOf(p, n)) = 1 /\ RowsOf(p, n) = {}
           ELSE Cardinality(RowsOf(p, n)) = 1 /\ CardsOf(p, n) = {}

\* a document with a card of a job at exactly 7, a row of a job just below,
\* and a row of a job without a scores block
C14_Witness ==
  \E p \in DOMAIN run :
    /\ Rendered(p)
    /\ \E a, b, c \in 1..Len(run[p].jobs) :
         /\ OverallOf(run[p].jobs[a]) = 70 /\ CardsOf(p, a) # {}
         /\ OverallOf(run[p].jobs[b]) = 65 /\ RowsOf(p, b) # {}
         /\ "scores" \notin run[p].jobs[c].keys /\ RowsOf(p, c) # {}

\* C15: Empty digest.  The document rendered from the empty list shows the
\* no-new-jobs placeholder and nothing else: no quick-reference table, no
\* card, no summary row, and not the notice of a list without top matches.
C15_EmptyPlaceholder ==
  \A p \in DOMAIN run :
    (Rendered(p) /\ run[p].jobs = <<>>) =>
      /\ run[p].html[1].placeholder
      /\ ~run[p].html[1].no_top_notice
      /\ run[p].html[1].job_count = 0
      /\ run[p].html[1].toc = <<>>
      /\ run[p].html[1].cards = <<>>
      /\ run[p].html[1].other = <<>>

C15_Witness ==
  \E p \in DOMAIN run :
    Rendered(p) /\ run[p].jobs = <<>> /\ run[p].html # <<>>


\* C16: Missing fields.  build_email_html returns a document, and does not
\* raise, whichever display fields the jobs of its list lack.
C16_PresenterNeverRaises ==
  \A p \in DOMAIN run :
    run[p].entry = "build_email_html" =>
      /\ run[p].pc # "crashed"
      /\ run[p].pc = "exit" => run[p].html # <<>>


SameTriple(a, b) ==
  /\ Lower(a.title) = Lower(b.title)
  /\ Lower(a.company) = Lower(b.company)
  /\ Lower(a.location) = Lower(b.location)

\* C17: the fingerprint depends on the lower-cased (title, company, location)
\* only.  Of a job as the loop of the filter stage left it (with id, url and
\* url_is_search rewritten if it was kept) and a job as the backends gave it:
\* if their lower-cased triples are equal, their fingerprints are equal, and
\* the fingerprint the loop recorded on the first is the one a later call
\* gives for either.
C17_FingerprintOfTripleOnly ==
  \A p \in DOMAIN run :
    FilterDone(p) =>
      \A m, n \in 1..Len(run[p].rawIn) :
        LET a == run[p].raw_jobs[m]
            b == run[p].rawIn[n]
        IN SameTriple(a, b) =>
             /\ _job_id(a) = _job_id(b)
             /\ "id" \in a.keys => a.id = _job_id(a) /\ a.id = _job_id(b)

\* a posting kept with a rewritten url, and a second posting that differs from
\* it in case and in url only
C17_Witness ==
  \E p \in DOMAIN run :
    /\ FilterDone(p)
    /\ \E m, n \in 1..Len(run[p].rawIn) :
         LET a == run[p].raw_jobs[m]
             b == run[p].rawIn[n]
         IN
         /\ SameTriple(a, b)
         /\ a.title # b.title
         /\ a.url # b.url
         /\ "id" \in a.keys /\ "id" \notin b.keys
         /\ a.url_is_search

\* the backends of a run have all returned
FetchGathered(p) ==
  /\ run[p].entry = "fetch_requests"
  /\ run[p].pc \notin {"fetch_requests"} \cup {Stages[n] : n \in 1..Len(Stages)}

RECURSIVE JobsLogged(_)
JobsLogged(log) ==
  IF log = <<>> THEN <<>> ELSE log[1].jobs \o JobsLogged(Tail(log))

\* no request is sent twice; once the backends have returned, every query of
\* every configured backend, and every firm, was sent its first request,
\* every query whose first request did not raise was sent its second, and
\* the list gathered is what the requests added, in the order of the requests
RequestsIsolated(p) ==
  /\ \A m, n \in 1..Len(run[p].log) :
       (/\ run[p].log[m].backend = run[p].log[n].backend
        /\ run[p].log[m].q = run[p].log[n].q
        /\ run[p].log[m].remote = run[p].log[n].remote) => m = n
  /\ FetchGathered(p) =>
       /\ \A s \in 1..Len(Stages) :
            Configured(config, Stages[s]) =>
              \A q \in 1..Rounds(Stages[s]) :
                \E n \in 1..Len(run[p].log) :
                  /\ run[p].log[n].backend = SourceOf(Stages[s])
                  /\ run[p].log[n].q = q
                  /\ ~run[p].log[n].remote
                  /\ (Stages[s] # "search_career_pages" /\ ~Raised(run[p].log[n].outcome))
                       => /\ n < Len(run[p].log)
                          /\ run[p].log[n + 1].backend = SourceOf(Stages[s])
                          /\ run[p].log[n + 1].q = q
                          /\ run[p].log[n + 1].remote
       /\ run[p].pc # "gathered" => run[p].rawIn = JobsLogged(run[p].log)

\* C18: a request of a backend that fails (timeout, error status, malformed
\* payload) does not abort the fetch: the fetch returns, the jobs collected
\* before and the jobs of the later queries and of the other backends are in
\* what it filtered, and no request is sent a second time.
C18_FetchFailureIsolated ==
  \A p \in DOMAIN run :
    run[p].entry = "fetch_requests" =>
      /\ run[p].pc # "crashed"
      /\ RequestsIsolated(p)

NoBackend == ~config.SERPAPI_KEY /\ ~config.RAPIDAPI_KEY

\* C19: with neither search key configured, fetch_jobs sends no request to any
\* backend, does not raise, and what it returns is the empty list.
C19_NoBackendEmpty ==
  \A p \in DOMAIN run :
    (run[p].entry = "fetch_requests" /\ NoBackend) =>
      /\ run[p].log = <<>>
      /\ run[p].called = {}
      /\ run[p].pc \in {"fetch_requests", "gathered", "exit"}
      /\ run[p].raw_jobs = <<>>
      /\ run[p].jobs = <<>>

\* fetch_jobs returned with no key set and the career-page scan switched on
C19_Witness ==
  \E p \in DOMAIN run :
    /\ run[p].entry = "fetch_requests"
    /\ NoBackend
    /\ config.SCAN_CAREER_PAGES
    /\ run[p].pc = "exit"


\* the job that stood at position n of the list rank_jobs was called with,
\* as the run holds it now
JobAt(p, n) ==
  LET m == CHOOSE m \in 1..Len(run[p].jobs) : run[p].jobs[m].id = run[p].rankIn[n].id
  IN run[p].jobs[m]

\* a batch request of more than one job whose reply json.loads rejected
IsRetried(rq) ==
  rq.kind = "batch" /\ rq.caught = "JSONDecodeError" /\ Cardinality(rq.sent) > 1

\* the marker of the default block a failed request leaves on its jobs
MarkerOf(rq) ==
  IF rq.kind = "single" THEN "Scoring failed"
  ELSE IF rq.caught = "JSONDecodeError" THEN "Parse error during scoring"
  ELSE "API error during scoring"

\* C20: Scorer degradation.  After a batch of more than one job whose reply
\* is no JSON, each job of the batch is sent once more, alone and in order,
\* and a job is sent alone only then.  After a one-job batch or a single
\* request whose reply is no JSON, and after any request that raised
\* otherwise, every job of the request carries the default block with the
\* marker of that failure and is in no later request.
C20_DegradationPolicy ==
  \A p \in DOMAIN run :
    run[p].entry = "rank_jobs" =>
      LET rqs == run[p].requests
      IN \A m \in 1..Len(rqs) :
           /\ IsRetried(rqs[m]) =>
                LET size == Cardinality(rqs[m].sent)
                    first == CHOOSE pos \in rqs[m].sent : pos - 1 \notin rqs[m].sent
                IN /\ \A n \in (m + 1)..Len(rqs) :
                        IF n <= m + size
                        THEN rqs[n].kind = "single" /\ rqs[n].sent = {first + (n - m) - 1}
                        ELSE rqs[n].sent \cap rqs[m].sent = {}
                   /\ RankDone(p) => Len(rqs) >= m + size
           /\ (rqs[m].caught # "none" /\ ~IsRetried(rqs[m])) =>
                /\ \A n \in (m + 1)..Len(rqs) : rqs[n].sent \cap rqs[m].sent = {}
                /\ \A pos \in rqs[m].sent :
                     /\ "scores" \in JobAt(p, pos).keys
                     /\ JobAt(p, pos).scores = _empty_scores(MarkerOf(rqs[m]))
           /\ rqs[m].kind = "single" =>
                \E n \in 1..(m - 1) :
                  IsRetried(rqs[n]) /\ rqs[m].sent \subseteq rqs[n].sent

\* a batch of five with an unparseable reply, scored job by job with one
\* single request failing and one answered, and then a batch of one with an
\* unparseable reply
C20_Witness ==
  \E p \in DOMAIN run :
    /\ RankDone(p)
    /\ run[p].entry = "rank_jobs"
    /\ \E m \in 1..Len(run[p].requests) : IsRetried(run[p].requests[m])
    /\ \A how \in {"none", "Exception"} :
         \E m \in 1..Len(run[p].requests) :
           run[p].requests[m].kind = "single" /\ run[p].requests[m].caught = how
    /\ \E m \in 1..Len(run[p].requests) :
         /\ run[p].requests[m].kind = "batch"
         /\ run[p].requests[m].caught = "JSONDecodeError"
         /\ Cardinality(run[p].requests[m].sent) = 1






\* the requests of a run that carried the job of input position pos
RequestsWith(p, pos) == {m \in 1..Len(run[p].requests) : pos \in run[p].requests[m].sent}

\* the requests a batch request caused: itself and the single requests for
\* its jobs
CausedBy(p, m) ==
  {n \in 1..Len(run[p].requests) :
     n = m \/ (/\ run[p].requests[n].kind = "single"
               /\ run[p].requests[n].sent \subseteq run[p].requests[m].sent)}

\* the number of batches of a list of n jobs
BatchCount(n) == (n + batch_size - 1) \div batch_size

\* C21: Bounded scoring requests.  In one call of rank_jobs no two batch
\* requests and no two single requests carry the same job, so that a job is
\* in at most two requests, one batch request and at most one single one; a
\* batch of n jobs causes at most 1 + n requests and a batch of one job
\* exactly one; the call makes at most one request per batch and one per job
\* in all, and it is over when the last batch is.
C21_BoundedRequests ==
  \A p \in DOMAIN run :
    run[p].entry = "rank_jobs" =>
      LET rqs == run[p].requests
      IN /\ \A m, n \in 1..Len(rqs) :
              (m < n /\ rqs[m].kind = rqs[n].kind) => rqs[m].sent \cap rqs[n].sent = {}
         /\ \A m \in 1..Len(rqs) :
              rqs[m].kind = "batch" =>
                /\ Cardinality(CausedBy(p, m)) <= 1 + Cardinality(rqs[m].sent)
                /\ Cardinality(rqs[m].sent) = 1 => CausedBy(p, m) = {m}
         /\ Len(rqs) <= BatchCount(Len(run[p].rankIn)) + Len(run[p].rankIn)
         /\ (RankDone(p) /\ config.ANTHROPIC_API_KEY) =>
              \A pos \in 1..Len(run[p].rankIn) : RequestsWith(p, pos) # {}

\* a batch of five that took six requests, and a batch of one whose reply
\* was unparseable and which took one
C21_Witness ==
  \E p \in DOMAIN run :
    /\ run[p].entry = "rank_jobs"
    /\ RankDone(p)
    /\ \E m \in 1..Len(run[p].requests) :
         /\ run[p].requests[m].kind = "batch"
         /\ Cardinality(run[p].requests[m].sent) = batch_size
         /\ Cardinality(CausedBy(p, m)) = 1 + batch_size
    /\ \E m \in 1..Len(run[p].requests) :
         /\ run[p].requests[m].kind = "batch"
         /\ run[p].requests[m].caught = "JSONDecodeError"
         /\ Cardinality(run[p].requests[m].sent) = 1
    /\ Len(run[p].requests) = 2 + batch_size



\* C22: Scores are matched by id.  A score record the service returned is on
\* a job only if the id of the record is the id of the job, whether it came
\* in a batch reply or in the reply to a single request.
C22_MatchedById ==
  \A p \in DOMAIN run :
    run[p].entry = "rank_jobs" =>
      \A n \in 1..Len(run[p].jobs) :
        ("scores" \in run[p].jobs[n].keys /\ IsReturnedBlock(run[p].jobs[n].scores))
          => run[p].jobs[n].scores.id = run[p].jobs[n].id


(***************************************************************************)
(* Properties of the seen-store over runs                                  *)
(***************************************************************************)
\* a step leaves the date of every fingerprint that is in the dict before
\* and after it as it was
DatesKept(before, after) ==
  \A k \in DOMAIN before \cap DOMAIN after : after[k] = before[k]

\* C23: a seen-store entry is never mutated.  No step of a run changes the
\* date stored for a fingerprint, in the file or in the dict the run holds,
\* as long as the fingerprint stays; a fingerprint that enters the file does
\* so with the date of the run that recorded it.
C23_EntryNeverMutated ==
  [][ /\ DatesKept(seenFile.data, seenFile'.data)
      /\ \A p \in DOMAIN run : DatesKept(run[p].seen, run'[p].seen)
      /\ \A k \in DOMAIN seenFile'.data \ DOMAIN seenFile.data :
           \E p \in DOMAIN run :
             /\ run[p].pc = "dedup"
             /\ seenFile'.data[k] = run[p].today
             /\ \E n \in 1..Len(run[p].raw_jobs) : _job_id(run[p].raw_jobs[n]) = k
    ]_vars

\* a second run, on a later day, fetched a job again that the first run had
\* recorded, and the store still holds it under the date of the first run
C23_Witness ==
  \E p \in DOMAIN run :
    /\ FilterDone(p)
    /\ run[p].again.same
    /\ DayNum(run[p].again.today) < DayNum(run[p].today)
    /\ \E n \in 1..Len(run[p].rawIn) :
         LET k == _job_id(run[p].rawIn[n])
         IN /\ k \in DOMAIN seenFile.data
            /\ k \notin run[p].again.pruned
            /\ seenFile.data[k] = run[p].again.today


\* C24: the prune step of a run removes no entry that the run recorded.
\* When the filter stage has returned, the fingerprint of every job it
\* returned is a key of the persisted store, with the date of the run, also
\* when midnight passed between the recording and the prune.
C24_OwnEntriesSurvivePrune ==
  \A p \in DOMAIN run :
    FilterDone(p) =>
      \A n \in 1..Len(run[p].unique_jobs) :
        /\ run[p].unique_jobs[n].id \in DOMAIN seenFile.data
        /\ seenFile.data[run[p].unique_jobs[n].id] = run[p].today

\* a run that returned a job, whose prune ran on the day after the run
\* recorded the job, and removed an older entry
C24_Witness ==
  \E p \in DOMAIN run :
    /\ FilterDone(p)
    /\ run[p].unique_jobs # <<>>
    /\ run[p].pruneDay = DayNum(run[p].today) + 1
    /\ run[p].pruned # {}


\* the fingerprints a run has kept so far, each with the date of the run
Batch(p) ==
  [k \in {run[p].unique_jobs[n].id : n \in 1..Len(run[p].unique_jobs)} |-> run[p].today]

\* C25: in a run the seen-store is read at most once, and before any write,
\* and written at most twice.  The file changes only in a write of the filter
\* stage: the first write stores the loaded entries plus the batch of the
\* run, the second what the prune kept of that; no step of the scorer, the
\* presenter, the delivery or main.py changes the file.
C25_StoreAccess ==
  [][ /\ \A p \in DOMAIN run :
           /\ run'[p].reads <= 1
           /\ run'[p].writes <= 2
           /\ run'[p].writes > 0 => run'[p].reads = 1
           /\ run'[p].reads > run[p].reads => run[p].writes = 0
      /\ seenFile' # seenFile =>
           \E p \in DOMAIN run :
             /\ run'[p].writes = run[p].writes + 1
             /\ run[p].pc \in {"dedup", "prune"}
             /\ run[p].pc = "dedup" =>
                  /\ run[p].writes = 0
                  /\ DOMAIN seenFile'.data = DOMAIN run[p].loaded \cup DOMAIN Batch(p)
                  /\ \A k \in DOMAIN run[p].loaded : seenFile'.data[k] = run[p].loaded[k]
                  /\ \A k \in DOMAIN Batch(p) : seenFile'.data[k] = Batch(p)[k]
             /\ run[p].pc = "prune" =>
                  /\ run[p].writes = 1
                  /\ seenFile'.data = Pruned(run[p].ingested, clock)
    ]_vars

\* a full run that read the store once, wrote it twice, scored the jobs and
\* called the delivery
C25_Witness ==
  \E p \in DOMAIN run :
    /\ run[p].entry = "main"
    /\ run[p].pc = "exit"
    /\ run[p].reads = 1
    /\ run[p].writes = 2
    /\ run[p].ranked
    /\ run[p].delivery.invoked
    /\ run[p].pruned # {}


\* a full or dry run of main.py that is over, normally or by an exception
RunOver(p) ==
  /\ run[p].entry = "main"
  /\ ~run[p].args.preview
  /\ run[p].pc \in {"exit", "crashed"}

\* the store holds no entry dated more than 30 days before the day
NoneOlderThanWindow(day) ==
  \A k \in DOMAIN seenFile.data : day - DayNum(seenFile.data[k]) <= PruneDays

OutputIds(p) == {run[p].unique_jobs[n].id : n \in 1..Len(run[p].unique_jobs)}

\* C27: two invocations race on the seen-store.  What keeps holding when
\* their steps interleave: a fingerprint is output by both only if each
\* loaded the store before the other had saved it, and the file is at any
\* time the whole dict of the invocation that wrote last, never a merge.
\* What is lost is in the witness: both output one fingerprint, and an entry
\* one of them saved is not in the final store.
C27_RaceOnlyWhenOverlapping ==
  /\ \A p, q \in DOMAIN run :
       (p # q /\ OutputIds(p) \cap OutputIds(q) # {}) =>
         p \notin run[q].loadedAfter /\ q \notin run[p].loadedAfter
  /\ (\E p \in DOMAIN run : run[p].writes > 0) =>
       \E p \in DOMAIN run :
         \/ run[p].writes = 1 /\ seenFile.data = run[p].ingested
         \/ run[p].writes = 2 /\ seenFile.data = run[p].seen

\* both invocations have returned, both output the same fingerprint, and a
\* fingerprint that one of them output and saved is not in the final store
C27_Witness ==
  /\ \A p \in DOMAIN run : run[p].pc = "exit"
  /\ \E p, q \in DOMAIN run :
       /\ p # q
       /\ OutputIds(p) \cap OutputIds(q) # {}
       /\ \E k \in OutputIds(p) :
            /\ k \in DOMAIN run[p].ingested
            /\ k \notin DOMAIN seenFile.data
            /\ k \notin DOMAIN run[q].ingested


\* C28: at most once across runs that follow one another.  A fingerprint
\* that a run output under the date of day d is not in the output of a run
\* whose date is a day up to and including d + 30, and no fingerprint is
\* twice in the output of one run.
C28_AtMostOnce ==
  \A p \in DOMAIN run :
    LET out == run[p].unique_jobs
    IN /\ \A m, n \in 1..Len(out) : out[m].id = out[n].id => m = n
       /\ \A n \in 1..Len(out) : \A e \in run[p].reported :
            e[1] = out[n].id =>
              ~DateGE(IsoDate(e[2] + PruneDays), run[p].today)

\* a run has returned that fetched, on the thirtieth day after it was
\* reported, a posting whose fingerprint was reported, and left it out
C28_Witness ==
  \E p \in DOMAIN run :
    /\ FilterDone(p)
    /\ run[p].runNo > 1
    /\ \E n \in 1..Len(run[p].rawIn) : \E e \in run[p].reported :
         /\ e[1] = _job_id(run[p].rawIn[n])
         /\ run[p].today = IsoDate(e[2] + PruneDays)
         /\ \A m \in 1..Len(run[p].unique_jobs) : run[p].unique_jobs[m].id # e[1]




\* C29: a job is recorded before it is scored or delivered and the record
\* stays.  Once fetch_jobs has returned to a run, dry or not, whatever comes
\* of the scoring and of the send, every job it returned is in the stored
\* file; and the run that follows, fetching the same postings on a day up
\* to the thirtieth after, has none of them in the list it scores, renders
\* or sends.
C29_RecordedBeforeDelivery ==
  \A p \in DOMAIN run :
    /\ run[p].filtered =>
         /\ seenFile.exists /\ seenFile.valid
         /\ \A n \in 1..Len(run[p].unique_jobs) :
              run[p].unique_jobs[n].id \in DOMAIN seenFile.data
    /\ \A e \in run[p].reported :
         DateGE(IsoDate(e[2] + PruneDays), IsoDate(clock)) =>
           /\ \A n \in 1..Len(run[p].jobs) : run[p].jobs[n].id # e[1]
           /\ \A n \in 1..Len(run[p].delivery.jobs) : run[p].delivery.jobs[n].id # e[1]

\* a full run whose send failed is followed, within the window, by a run
\* that fetched the job the first had passed on and has sent its digest
\* without it
C29_Witness ==
  \E p \in DOMAIN run :
    /\ run[p].pc = "exit"
    /\ run[p].filtered
    /\ ~run[p].args.dry_run
    /\ run[p].delivery.invoked /\ run[p].delivery.returned
    /\ \E e \in run[p].reported : \E n \in 1..Len(run[p].rawIn) :
         /\ e[3] = "send_failed"
         /\ e[1] = _job_id(run[p].rawIn[n])
         /\ DateGE(IsoDate(e[2] + PruneDays), IsoDate(clock))
         /\ e[1] \in DOMAIN seenFile.data


\* the documents a run of the script has written or sent
Digests ==
  {previewFile[n] : n \in 1..Len(previewFile)} \cup
  {outbox[n].html : n \in 1..Len(outbox)}

\* the cards and the summary rows of a document that carry a given anchor
TargetsOf(doc, anchor) ==
  {<<"card", m>> : m \in {c \in 1..Len(doc.cards) : doc.cards[c].anchor = anchor}} \cup
  {<<"row", m>> : m \in {c \in 1..Len(doc.other) : doc.other[c].anchor = anchor}}

RankShown(doc, target) ==
  IF target[1] = "card" THEN doc.cards[target[2]].rank ELSE doc.other[target[2]].rank

\* C30: quick-reference consistency.  In a digest of a run that fetched and
\* ranked its jobs, the anchor of every row of the quick-reference table
\* is the id of exactly one card or summary row, and the number of the row
\* is the rank shown on that card or summary row.
C30_QuickReferenceConsistent ==
  \A p \in DOMAIN run : ~run[p].args.preview =>
    \A doc \in Digests : \A n \in 1..Len(doc.toc) :
      LET targets == TargetsOf(doc, doc.toc[n].anchor)
      IN /\ Cardinality(targets) = 1
         /\ \A t \in targets : RankShown(doc, t) = doc.toc[n].rank

\* a digest of two jobs, one on a card and one in a summary row, in which
\* the job fetched second comes first
C30_Witness ==
  \E p \in DOMAIN run : \E doc \in Digests :
    /\ ~run[p].args.preview
    /\ run[p].ranked
    /\ Len(doc.toc) = 2 /\ Len(doc.cards) = 1 /\ Len(doc.other) = 1
    /\ Len(run[p].unique_jobs) = 2
    /\ doc.toc[1].anchor = AnchorId(run[p].unique_jobs[2], 1)
    /\ doc.cards[1].anchor = doc.toc[1].anchor
    /\ doc.other[1].anchor = doc.toc[2].anchor

============================================================================
